---- MODULE Spec2Model ----
(***************************************************************************)
(* Scanner ULTRA / PentaShield: the scan orchestrator with its result      *)
(* store, the fusion and trust-score engines, the PentaShield override     *)
(* policy, the detector-call boundary, the detector registry under threads *)
(* and over the application lifespan, the active probe (challenge          *)
(* generation, light / motion evaluation, probe session) and the polling   *)
(* loop of the Python SDK client, as state machines.                       *)
(*                                                                         *)
(* Numbers.  Scores and confidences are fixed-point integers.  The fusion  *)
(* code works in units of 1/Unit (four decimals, the precision of its      *)
(* round(x, 4)); the trust-score engine and the measurements of the light  *)
(* and motion challenges are modelled one decimal finer, in units of       *)
(* 1/Fine, so that their round(x, 4) is a real rounding.                   *)
(***************************************************************************)
EXTENDS Integers, Sequences, FiniteSets, TLC

VARIABLES
    detectors,      \* DetectorRegistry._detectors: the registered detector names, in order
    results_cache,  \* api/v1/results.py _results_cache: scan_id -> dumped ScanResult
    last_scan,      \* the latest ScanOrchestrator.scan call: its arguments and its return value
    response,       \* the latest GET /results/{scan_id}: the key sent, HTTP status, id looked up, body
    clock,          \* wall clock; one tick per scan
    returned,       \* the scan_ids that completed scans have returned
    fx,             \* the latest fusion-layer call (fuse or compute): arguments and result
    det,            \* the latest BaseDetector.detect call: detector, input and outcome
    penta,          \* the latest PentaShieldEngine.analyze call: evidence and result
    instance,       \* DetectorRegistry._instance: the id of the current registry object, or NoObject
    lock,           \* DetectorRegistry._lock: the thread holding it, or NoThread
    heap,           \* the registry objects allocated so far, by id: their _detectors attribute
    pc,             \* per thread: the position inside the registry call it is running
    local,          \* per thread: its registry reference, iterator, and the outcome of its last call
    calls,          \* the number of registry calls started
    life,           \* the application lifespan: phase, model loads, shutdown hooks invoked
    mt,             \* the latest _detect_media_type call: arguments and result
    probe,          \* the latest active-probe call (challenge generation or evaluation)
    session,        \* the ProbeSession: state, issued challenges, response scores, liveness_score
    reply,          \* what the latest session operation returned to its caller
    sdk             \* the latest ScannerClient.wait_for_result call: arguments, polls and outcome

threadVars == <<instance, lock, heap, pc, local, calls>>
sessionVars == <<session, reply>>
coreVars == <<detectors, results_cache, last_scan, response, clock, returned, fx, det, penta,
              life, mt, probe, sessionVars, sdk>>
vars == <<coreVars, threadVars, life, mt, probe>>

None == "None"

Max(a, b) == IF a >= b THEN a ELSE b
Min(a, b) == IF a <= b THEN a ELSE b
Abs(a) == IF a >= 0 THEN a ELSE -a

(***************************************************************************)
(* Bounds of the model.                                                    *)
(***************************************************************************)
MaxScans == 2
MaxFrames == 3
MaxCalls == 5
MaxChallenges == 3
MaxProbeFrames == 5
MaxAudioChallenges == 2
MaxLateCalls == 2
MaxWait == 3
MaxPollInterval == 2
MaxRequestTime == 2

(***************************************************************************)
(* Fixed-point units.                                                      *)
(***************************************************************************)
RoundDigits == 4
Unit == 10 ^ RoundDigits
Fine == 10 * Unit

\* round(x, 4) of a value held in units of 1/Fine: the nearest multiple of
\* Fine/Unit, an exact tie going to the even neighbour.
Round4(x) ==
    LET q == Fine \div Unit
        lo == (x \div q) * q
        r == x - lo
    IN  IF 2 * r < q THEN lo
        ELSE IF 2 * r > q THEN lo + q
        ELSE IF (lo \div q) % 2 = 0 THEN lo ELSE lo + q

(***************************************************************************)
(* models/enums.py                                                         *)
(***************************************************************************)
MediaType == {"IMAGE", "VIDEO", "AUDIO", "TEXT", "STREAM"}
Verdict == {"AUTHENTIC", "LIKELY_AUTHENTIC", "UNCERTAIN", "LIKELY_FAKE", "FAKE"}
ThreatLevel == {"NONE", "LOW", "MEDIUM", "HIGH", "CRITICAL"}
DetectorStatus == {"PASS", "WARN", "FAIL", "ERROR", "SKIPPED"}

\* The value of a str-Enum member: what model_dump(mode="json") writes and
\* what the enum's constructor parses.
EnumValue ==
    [n \in MediaType \cup Verdict \cup ThreatLevel |->
        CASE n = "IMAGE" -> "image" [] n = "VIDEO" -> "video" [] n = "AUDIO" -> "audio"
          [] n = "TEXT" -> "text" [] n = "STREAM" -> "stream"
          [] n = "AUTHENTIC" -> "authentic" [] n = "LIKELY_AUTHENTIC" -> "likely_authentic"
          [] n = "UNCERTAIN" -> "uncertain" [] n = "LIKELY_FAKE" -> "likely_fake"
          [] n = "FAKE" -> "fake"
          [] n = "NONE" -> "none" [] n = "LOW" -> "low" [] n = "MEDIUM" -> "medium"
          [] n = "HIGH" -> "high" [] n = "CRITICAL" -> "critical"]

\* EnumClass(value): the member with that value; None stands for ValueError.
EnumParse(EnumClass, value) ==
    IF \E n \in EnumClass : EnumValue[n] = value
    THEN CHOOSE n \in EnumClass : EnumValue[n] = value
    ELSE None

(***************************************************************************)
(* core/fusion/trust_score_engine.py                                       *)
(***************************************************************************)
THREAT_MAP ==
    [v \in Verdict |->
        CASE v = "FAKE" -> "CRITICAL"
          [] v = "LIKELY_FAKE" -> "HIGH"
          [] v = "UNCERTAIN" -> "MEDIUM"
          [] v = "LIKELY_AUTHENTIC" -> "LOW"
          [] v = "AUTHENTIC" -> "NONE"]

\* _to_verdict(ts), ts in units of 1/Fine
ToVerdict_Exclusive(ts) ==
    IF ts > (8 * Fine) \div 10 THEN "AUTHENTIC"
    ELSE IF ts > (6 * Fine) \div 10 THEN "LIKELY_AUTHENTIC"
    ELSE IF ts > (4 * Fine) \div 10 THEN "UNCERTAIN"
    ELSE IF ts > (2 * Fine) \div 10 THEN "LIKELY_FAKE"
    ELSE "FAKE"

ToVerdict(ts) ==
    IF ts >= (8 * Fine) \div 10 THEN "AUTHENTIC"
    ELSE IF ts >= (6 * Fine) \div 10 THEN "LIKELY_AUTHENTIC"
    ELSE IF ts >= (4 * Fine) \div 10 THEN "UNCERTAIN"
    ELSE IF ts >= (2 * Fine) \div 10 THEN "LIKELY_FAKE"
    ELSE "FAKE"

\* _explain(ts, verdict, conf): the templated message of the verdict and the
\* two values formatted as whole percentages (f"{x:.0%}").
Explain(ts, verdict, conf) ==
    LET pct(x) == (x + Fine \div 200) \div (Fine \div 100)
    IN  [summary |-> verdict, trust_score_label |-> pct(ts), confidence_label |-> pct(conf)]

\* TrustScoreEngine.compute(fused_score, confidence); raw_trust_score is the
\* unrounded local the verdict is taken from (not a key of the returned dict).
\* The subtraction is exact here; the binary float 1.0 - fused_score can lie
\* one ulp below the decimal value (1.0 - 0.8 < 0.2).
Compute(fused_score, confidence) ==
    LET trust_score == Max(0, Min(Fine, Fine - fused_score))
        verdict == ToVerdict(trust_score)
        threat == THREAT_MAP[verdict]
    IN  [trust_score |-> Round4(trust_score),
         verdict |-> verdict,
         threat_level |-> threat,
         confidence |-> Round4(confidence),
         explanation |-> Explain(trust_score, verdict, confidence),
         raw_trust_score |-> trust_score]

(***************************************************************************)
(* core/fusion/cross_modal_attention.py, in units of 1/Unit.  A quotient   *)
(* or product is rounded to the nearest unit where Python keeps a float.   *)
(***************************************************************************)
\* n / d rounded to the nearest integer (d # 0)
RoundDiv(n, d) ==
    LET q == (2 * Abs(n) + Abs(d)) \div (2 * Abs(d))
    IN  IF (n < 0) # (d < 0) THEN -q ELSE q

\* a * b of two fixed-point values
Mul(a, b) == RoundDiv(a * b, Unit)

RECURSIVE SqrtSearch(_, _, _)
SqrtSearch(x, lo, hi) ==
    IF lo >= hi THEN lo
    ELSE LET mid == (lo + hi + 1) \div 2
         IN  IF mid * mid <= x THEN SqrtSearch(x, mid, hi) ELSE SqrtSearch(x, lo, mid - 1)

\* the integer nearest to the square root of x >= 0
Sqrt(x) ==
    LET r == SqrtSearch(x, 0, 46340)
    IN  IF x - r * r > r THEN r + 1 ELSE r

RECURSIVE SumSeq(_)
SumSeq(q) == IF q = << >> THEN 0 ELSE Head(q) + SumSeq(Tail(q))

\* r.get(key, default) on a detector-result dict
DictGet(r, key, default) == IF key \in DOMAIN r THEN r[key] ELSE default

ATTENTION_PRIORS(m1, m2) ==
    CASE {m1, m2} = {"visual", "audio"} -> (7 * Unit) \div 10
      [] {m1, m2} = {"visual", "text"} -> (4 * Unit) \div 10
      [] {m1, m2} = {"audio", "text"} -> (5 * Unit) \div 10
      [] OTHER -> (5 * Unit) \div 10

\* The modality_scores entry of one modality (fuse, lines 32-40): the
\* confidence-weighted mean score over tc = sum(confs) + 1e-8 and the mean
\* confidence.  With sum(confs) = 0 the quotient is num / 1e-8: 0 for num = 0,
\* and out of every range otherwise (held as +-Huge).
Huge == 10 ^ 9
ModalityEntry(results) ==
    LET n == Len(results)
        scores == [i \in 1..n |-> DictGet(results[i], "score", Unit \div 2)]
        confs == [i \in 1..n |-> DictGet(results[i], "confidence", 0)]
        num == SumSeq([i \in 1..n |-> scores[i] * confs[i]])
        tc == SumSeq(confs)
    IN  [score |-> IF tc # 0 THEN RoundDiv(num, tc)
                   ELSE IF num = 0 THEN 0 ELSE IF num > 0 THEN Huge ELSE -Huge,
         confidence |-> RoundDiv(SumSeq(confs), n),
         n_detectors |-> n]

\* The present modalities in dict order, given the three result lists.
PresentModalities(visual_results, audio_results, text_results) ==
    (IF visual_results # << >> THEN <<"visual">> ELSE << >>)
        \o (IF audio_results # << >> THEN <<"audio">> ELSE << >>)
        \o (IF text_results # << >> THEN <<"text">> ELSE << >>)

\* _compute_attention(ms) without the division by the total of line 74
ComputeAttention_Unnormalised(ms, mods) ==
    LET boost(m1, m2) == Mul(Unit - Abs(ms[m1].score - ms[m2].score), ATTENTION_PRIORS(m1, m2))
        weight(i) == Unit + SumSeq([j \in 1..Len(mods) |->
                                      IF j = i THEN 0 ELSE boost(mods[Min(i, j)], mods[Max(i, j)])])
    IN  [m \in {mods[i] : i \in 1..Len(mods)} |->
            LET i == CHOOSE k \in 1..Len(mods) : mods[k] = m
            IN  weight(i)]

\* _compute_attention(ms), mods the keys of ms in order
ComputeAttention(ms, mods) ==
    LET boost(m1, m2) == Mul(Unit - Abs(ms[m1].score - ms[m2].score), ATTENTION_PRIORS(m1, m2))
        weight(i) == Unit + SumSeq([j \in 1..Len(mods) |->
                                      IF j = i THEN 0 ELSE boost(mods[Min(i, j)], mods[Max(i, j)])])
        total == SumSeq([i \in 1..Len(mods) |-> weight(i)])
    IN  [m \in {mods[i] : i \in 1..Len(mods)} |->
            LET i == CHOOSE k \in 1..Len(mods) : mods[k] = m
            IN  RoundDiv(weight(i) * Unit, total)]

\* _agreement(ms) returning 1.0 instead of 0.5 below two modalities
Agreement_DefaultOne(ms, mods) ==
    LET n == Len(mods)
        scores == [i \in 1..n |-> ms[mods[i]].score]
        sum == SumSeq(scores)
        sumsq == SumSeq([i \in 1..n |-> scores[i] * scores[i]])
        std == RoundDiv(Sqrt(n * sumsq - sum * sum), n)
    IN  IF n < 2 THEN Unit ELSE Max(0, Unit - 3 * std)

\* _agreement(ms): 0.5 below two modalities, else max(0, 1 - 3 * np.std(scores))
Agreement(ms, mods) ==
    LET n == Len(mods)
        scores == [i \in 1..n |-> ms[mods[i]].score]
        sum == SumSeq(scores)
        sumsq == SumSeq([i \in 1..n |-> scores[i] * scores[i]])
        std == RoundDiv(Sqrt(n * sumsq - sum * sum), n)
    IN  IF n < 2 THEN Unit \div 2 ELSE Max(0, Unit - 3 * std)

\* CrossModalAttention.fuse(visual_results, audio_results, text_results)
Fuse(visual_results, audio_results, text_results) ==
    LET mods == PresentModalities(visual_results, audio_results, text_results)
        input == [m \in {"visual", "audio", "text"} |->
                    CASE m = "visual" -> visual_results
                      [] m = "audio" -> audio_results
                      [] m = "text" -> text_results]
        ms == [m \in {mods[i] : i \in 1..Len(mods)} |-> ModalityEntry(input[m])]
        weights == ComputeAttention(ms, mods)
        wc == [i \in 1..Len(mods) |-> Mul(weights[mods[i]], ms[mods[i]].confidence)]
        fs == SumSeq([i \in 1..Len(mods) |-> Mul(wc[i], ms[mods[i]].score)])
        tw == SumSeq(wc)
        agreement == Agreement(ms, mods)
    IN  IF mods = << >>
        THEN [fused_score |-> Unit \div 2, confidence |-> 0, method |-> "no_modalities"]
        ELSE [fused_score |-> IF tw > 0 THEN RoundDiv(fs * Unit, tw) ELSE Unit \div 2,
              confidence |-> Min((95 * Unit) \div 100, RoundDiv(agreement * 12, 10)),
              attention_weights |-> weights,
              modality_scores |-> [m \in DOMAIN ms |-> ms[m].score],
              agreement |-> agreement,
              method |-> "cross_modal_attention"]

(***************************************************************************)
(* pentashield/engine.py                                                   *)
(***************************************************************************)
\* What the HYDRA and SENTINEL sub-pipelines hand to the override policy.  A
\* minority_report is << >> (None) or << d >> with d the dict of the report;
\* scores are in units of 1/Unit.
MinorityReports ==
    {<< >>, << [k \in {} |-> 0] >>}
        \cup {<< [dissent_magnitude |-> m] >> : m \in {5000, 5001, 9000}}
HydraResults == [adversarial_detected : BOOLEAN, minority_report : MinorityReports]
SentinelResults ==
    [is_novel_type : BOOLEAN, physics_score : {0, 1000, 2999, 3000, 3001, 10000}]

\* hydra.minority_report.get("dissent_magnitude", 0)
DissentMagnitude(report) ==
    IF "dissent_magnitude" \in DOMAIN report THEN report["dissent_magnitude"] ELSE 0

\* PentaShieldEngine._check_overrides(hydra, sentinel, fused_score): the pair
\* (override_verdict, override_reason); the reason is named by its rule.
CheckOverrides_PhysicsFirst(hydra, sentinel, fused_score) ==
    IF sentinel.physics_score < (3 * Unit) \div 10
    THEN [verdict |-> "LIKELY_FAKE", reason |-> "physics"]
    ELSE IF hydra.adversarial_detected
    THEN [verdict |-> "UNCERTAIN", reason |-> "adversarial"]
    ELSE IF sentinel.is_novel_type
    THEN [verdict |-> "UNCERTAIN", reason |-> "novel_type"]
    ELSE IF /\ hydra.minority_report # << >>
            /\ DissentMagnitude(hydra.minority_report[1]) > (5 * Unit) \div 10
    THEN [verdict |-> "UNCERTAIN", reason |-> "dissent"]
    ELSE [verdict |-> None, reason |-> None]

CheckOverrides(hydra, sentinel, fused_score) ==
    IF hydra.adversarial_detected
    THEN [verdict |-> "UNCERTAIN", reason |-> "adversarial"]
    ELSE IF sentinel.is_novel_type
    THEN [verdict |-> "UNCERTAIN", reason |-> "novel_type"]
    ELSE IF sentinel.physics_score < (3 * Unit) \div 10
    THEN [verdict |-> "LIKELY_FAKE", reason |-> "physics"]
    ELSE IF /\ hydra.minority_report # << >>
            /\ DissentMagnitude(hydra.minority_report[1]) > (5 * Unit) \div 10
    THEN [verdict |-> "UNCERTAIN", reason |-> "dissent"]
    ELSE [verdict |-> None, reason |-> None]

\* The PentaShieldResult of analyze, given what _run_hydra and _run_sentinel
\* returned.
PentaShieldResult_ReasonDropped(hydra, sentinel, fused_score) ==
    LET ov == CheckOverrides(hydra, sentinel, fused_score)
    IN  [hydra |-> hydra, sentinel |-> sentinel,
         override_verdict |-> ov.verdict, override_reason |-> None]

PentaShieldResult(hydra, sentinel, fused_score) ==
    LET ov == CheckOverrides(hydra, sentinel, fused_score)
    IN  [hydra |-> hydra, sentinel |-> sentinel,
         override_verdict |-> ov.verdict, override_reason |-> ov.reason]

\* _run_hydra / _run_sentinel on the media of the model: the spliced media
\* has severe physics anomalies, the clean one has no finding.
RunHydra(content) == [adversarial_detected |-> FALSE, minority_report |-> << >>]
RunSentinel(content) ==
    [is_novel_type |-> FALSE,
     physics_score |-> IF content = "spliced_bytes" THEN 1000 ELSE 10000]

(***************************************************************************)
(* models/registry.py and the detectors that main.py / the tests register  *)
(***************************************************************************)
\* The detector objects of the deployment, in registration order (the order of
\* the list in _register_all_detectors); the last one raises in _run_detection.
DetectorList == <<"mock_detector", "efficientnet_b0", "failing_detector">>

\* BaseDetector.enabled of each detector object (the default, True).
Enabled(name) == TRUE

\* DetectorRegistry.get_enabled()
GetEnabled(registry) == SelectSeq(registry, Enabled)

\* DetectorRegistry as threads see it (models/registry.py lines 17-67).  The
\* class attributes _instance and _lock are shared; a thread reads and writes
\* them one bytecode at a time.
Threads == {"t1", "t2"}
NoThread == None
NoObject == 0
Tombstone == None
ThreadDetectors == {"mock_detector", "failing_detector"}
Errors == {"RuntimeError", "AttributeError"}

\* What a thread holds between calls: `self` is the registry it obtained from
\* its last construction, `ret` that construction's return value, `acc` the
\* list a reader is building, `it_pos` / `it_used` the dict iterator's cursor
\* and the size it recorded when it was created.
IdleLocal ==
    [op |-> "none", self |-> NoObject, ret |-> NoObject, ret_inits |-> 0,
     it_pos |-> 0, it_used |-> 0, acc |-> << >>, outcome |-> "none"]

\* A dict is its entry array (insertion order; a popped entry leaves a hole).
Live(entries) == {i \in 1..Len(entries) : entries[i] # Tombstone}
Used(entries) == Cardinality(Live(entries))
DictSet(entries, name) ==
    IF \E i \in Live(entries) : entries[i] = name THEN entries ELSE Append(entries, name)
DictPop(entries, name) ==
    [i \in 1..Len(entries) |-> IF entries[i] = name THEN Tombstone ELSE entries[i]]

\* The application lifespan (main.py lines 18-33) before it starts: no model
\* load has been attempted, shutdown_all has not begun.
IdleLife ==
    [phase |-> "created", loaded |-> {}, load_failed |-> {}, at_begin |-> << >>,
     invoked |-> << >>, it_pos |-> 0, it_used |-> 0, late_calls |-> 0, outcome |-> "none"]

\* The ProbeSession before createSession: no challenge issued, no response
\* collected, liveness_score not set.
NoSession == [state |-> "CREATED", challenges |-> << >>, scores |-> << >>, liveness_score |-> << >>]

(***************************************************************************)
(* core/orchestrator.py                                                    *)
(***************************************************************************)
\* uuid.uuid4().hex[:12] and uuid.uuid4().hex: draws from the id space.
UUIDs == {"u1", "u2", "u3"}
CorrelationIds == {"k1", "k2"}

Contents == {"clean_bytes", "spliced_bytes"}

\* hashlib.sha256(content).hexdigest(): one digest per content.
Sha256(content) ==
    CASE content = "clean_bytes" -> "9f2c"
      [] content = "spliced_bytes" -> "41d0"
      [] OTHER -> "e3b0"

\* (filename, media_type_hint) pairs offered to scan; "None" is no hint.
ScanArgs == {<<"test.jpg", None>>, <<"renamed.png", "video">>}

\* The filenames and hints that _detect_media_type is called with.
Filenames ==
    {"test.jpg", "renamed.png", "test.mp4", "test.wav", "test.txt", "notes.md", "report.pdf",
     "archive.tar.gz", ".MP4", "noext", "x.unknownext"}
Hints == {None, "", "image", "video", "audio", "text", "stream", "VIDEO", "document"}

\* mimetypes.guess_type(filename)[0], for the filenames of the model (the
\* table of the standard library; a name without a known suffix has no type).
GuessMime(filename) ==
    CASE filename = "test.jpg" -> "image/jpeg"
      [] filename = "renamed.png" -> "image/png"
      [] filename = "test.mp4" -> "video/mp4"
      [] filename = "test.wav" -> "audio/x-wav"
      [] filename = "test.txt" -> "text/plain"
      [] filename = "notes.md" -> "text/markdown"
      [] filename = "report.pdf" -> "application/pdf"
      [] filename = "archive.tar.gz" -> "application/x-tar"
      [] OTHER -> None

\* The prefix of a MIME type up to its slash: mime.startswith(p) holds for
\* exactly this p among "video/", "image/", "audio/", "text/".
MimePrefix(mime) ==
    CASE mime \in {"image/jpeg", "image/png"} -> "image/"
      [] mime \in {"video/mp4"} -> "video/"
      [] mime \in {"audio/x-wav"} -> "audio/"
      [] mime \in {"text/plain", "text/markdown"} -> "text/"
      [] OTHER -> "application/"

\* filename.split("."): a filename of the model as its dot-separated parts
FileParts(filename) ==
    CASE filename = "test.jpg" -> <<"test", "jpg">>
      [] filename = "renamed.png" -> <<"renamed", "png">>
      [] filename = "test.mp4" -> <<"test", "mp4">>
      [] filename = "test.wav" -> <<"test", "wav">>
      [] filename = "test.txt" -> <<"test", "txt">>
      [] filename = "notes.md" -> <<"notes", "md">>
      [] filename = "report.pdf" -> <<"report", "pdf">>
      [] filename = "archive.tar.gz" -> <<"archive", "tar", "gz">>
      [] filename = ".MP4" -> <<"", "MP4">>
      [] filename = "x.unknownext" -> <<"x", "unknownext">>
      [] OTHER -> <<filename>>

\* str.lower() on the suffixes of the model
Lower(str) == IF str = "MP4" THEN "mp4" ELSE str

\* ext = filename.rsplit(".", 1)[-1].lower() if "." in filename else ""
Ext(filename) ==
    LET parts == FileParts(filename)
    IN  IF Len(parts) > 1 THEN Lower(parts[Len(parts)]) ELSE ""

\* the dict ext_map; None where it has no such key
EXT_MAP(ext) ==
    CASE ext \in {"mp4", "avi", "mov", "mkv", "webm"} -> "VIDEO"
      [] ext \in {"jpg", "jpeg", "png", "webp", "bmp"} -> "IMAGE"
      [] ext \in {"mp3", "wav", "flac", "ogg"} -> "AUDIO"
      [] ext \in {"txt", "md"} -> "TEXT"
      [] OTHER -> None

\* ext_map.get(ext, MediaType.IMAGE), for the extension of filename
ExtMap(filename) ==
    IF EXT_MAP(Ext(filename)) # None THEN EXT_MAP(Ext(filename)) ELSE "IMAGE"

\* ScanOrchestrator._detect_media_type(filename, hint)
DetectMediaType_MimeFirst(filename, hint) ==
    LET mime == GuessMime(filename)
        parsed == EnumParse(MediaType, hint)
    IN  IF mime # None /\ MimePrefix(mime) = "video/" THEN "VIDEO"
        ELSE IF mime # None /\ MimePrefix(mime) = "image/" THEN "IMAGE"
        ELSE IF mime # None /\ MimePrefix(mime) = "audio/" THEN "AUDIO"
        ELSE IF mime # None /\ MimePrefix(mime) = "text/" THEN "TEXT"
        ELSE IF hint \notin {None, ""} /\ parsed # None THEN parsed
        ELSE ExtMap(filename)

DetectMediaType(filename, hint) ==
    LET mime == GuessMime(filename)
        parsed == EnumParse(MediaType, hint)
    IN  IF hint \notin {None, ""} /\ parsed # None THEN parsed
        ELSE IF mime # None /\ MimePrefix(mime) = "video/" THEN "VIDEO"
        ELSE IF mime # None /\ MimePrefix(mime) = "image/" THEN "IMAGE"
        ELSE IF mime # None /\ MimePrefix(mime) = "audio/" THEN "AUDIO"
        ELSE IF mime # None /\ MimePrefix(mime) = "text/" THEN "TEXT"
        ELSE ExtMap(filename)

\* The ScanResult that scan assembles (orchestrator.py lines 66-89): the
\* fusion step is a placeholder, detector_results stays the empty dict that
\* line 61 creates, pentashield is {}.
BuildScanResult_HalfConfidence(scan_id, media_type, content_hash, correlation_id, elapsed, now) ==
    [scan_id |-> scan_id,
     media_type |-> media_type,
     verdict |-> "UNCERTAIN",
     trust_score |-> Unit \div 2,
     confidence |-> Unit \div 2,
     threat_level |-> "LOW",
     detector_results |-> << >>,
     pentashield |-> << >>,
     content_hash |-> content_hash,
     correlation_id |-> correlation_id,
     processing_time_ms |-> elapsed,
     created_at |-> now]

BuildScanResult(scan_id, media_type, content_hash, correlation_id, elapsed, now) ==
    [scan_id |-> scan_id,
     media_type |-> media_type,
     verdict |-> "UNCERTAIN",
     trust_score |-> Unit \div 2,
     confidence |-> 0,
     threat_level |-> "LOW",
     detector_results |-> << >>,
     pentashield |-> << >>,
     content_hash |-> content_hash,
     correlation_id |-> correlation_id,
     processing_time_ms |-> elapsed,
     created_at |-> now]

\* result.model_dump(mode="json"): enum members become their values, the
\* datetime becomes its ISO string.
ModelDump(r) ==
    [r EXCEPT !.media_type = EnumValue[r.media_type],
              !.verdict = EnumValue[r.verdict],
              !.threat_level = EnumValue[r.threat_level],
              !.created_at = <<"iso8601", r.created_at>>]

\* ScanResult(**dict): the field validators parse the values back.
ParseScanResult(d) ==
    [d EXCEPT !.media_type = EnumParse(MediaType, d.media_type),
              !.verdict = EnumParse(Verdict, d.verdict),
              !.threat_level = EnumParse(ThreatLevel, d.threat_level),
              !.created_at = d.created_at[2]]

\* store_result(scan_id, result)
StoreResult_ByFingerprint(cache, scan_id, result) ==
    [id \in DOMAIN cache \cup {result.content_hash} |->
        IF id = result.content_hash THEN result ELSE cache[id]]

StoreResult(cache, scan_id, result) ==
    [id \in DOMAIN cache \cup {scan_id} |-> IF id = scan_id THEN result ELSE cache[id]]

(***************************************************************************)
(* api/auth/middleware.py, with the settings of tests/conftest.py          *)
(***************************************************************************)
SettingsEnv == "test"
SettingsApiKey == "test-api-key"
ApiKeys == {None, "test-api-key", "wrong-key"}

\* verify_api_key: 0 when the request may proceed, else the HTTP status raised.
VerifyApiKey(api_key) ==
    IF SettingsEnv = "development" /\ api_key = None THEN 0
    ELSE IF api_key = None THEN 401
    ELSE IF api_key # SettingsApiKey THEN 403
    ELSE 0

(***************************************************************************)
(* The orchestrator and its result store                                   *)
(***************************************************************************)
\* time.perf_counter() differences in ms: positive durations.
ElapsedMs == {3}
LookupIds == UUIDs \cup {"nonexistent"}

\* The state after construction: an empty registry and store, nothing called.
Init ==
    /\ detectors = << >>
    /\ results_cache = << >>
    /\ last_scan = << >>
    /\ response = [status |-> 0, api_key |-> None, scan_id |-> None, body |-> << >>]
    /\ clock = 0
    /\ returned = {}
    /\ instance = NoObject
    /\ lock = NoThread
    /\ heap = << >>
    /\ pc = [t \in Threads |-> "idle"]
    /\ local = [t \in Threads |-> IdleLocal]
    /\ calls = 0
    /\ life = IdleLife
    /\ session = NoSession
    /\ reply = [op |-> "none"]
    /\ sdk = [op |-> "none"]
    /\ mt = [op |-> "none"]
    /\ probe = [op |-> "none"]
    /\ fx = [op |-> "none"]
    /\ det = [op |-> "none"]
    /\ penta = [op |-> "none"]

\* DetectorRegistry.register(detector): the dict entry of the detector's name
\* is set; a name already present keeps its place.
RegistryRegister(registry, name) ==
    IF \E i \in 1..Len(registry) : registry[i] = name THEN registry ELSE Append(registry, name)

RECURSIVE RegisterLoop(_, _)
RegisterLoop(registry, list) ==
    IF list = << >> THEN registry
    ELSE RegisterLoop(RegistryRegister(registry, Head(list)), Tail(list))

\* The registration loop of _register_all_detectors (main.py lines 87-88): it
\* has no await, so it runs to its end before any request is served.
RegisterAll ==
    /\ detectors = << >>
    /\ detectors' = RegisterLoop(detectors, DetectorList)
    /\ UNCHANGED <<results_cache, last_scan, response, clock, returned, fx, det, penta,
                   threadVars, life, mt, probe, sessionVars, sdk>>

\* DetectorRegistry.reset(): the map is cleared and the next construction
\* starts from an empty registry.
Reset ==
    /\ detectors # << >>
    /\ detectors' = << >>
    /\ UNCHANGED <<results_cache, last_scan, response, clock, returned, fx, det, penta,
                   threadVars, life, mt, probe, sessionVars, sdk>>

\* ScanOrchestrator.scan(content, filename, media_type_hint)
Scan(content, filename, hint) ==
    /\ clock < MaxScans
    /\ \E scan_id \in UUIDs, correlation_id \in CorrelationIds, elapsed \in ElapsedMs :
         LET media_type == DetectMediaType(filename, hint)
             content_hash == Sha256(content)
             enabled == GetEnabled(detectors)
             result == BuildScanResult(scan_id, media_type, content_hash,
                                       correlation_id, elapsed, clock + 1)
         IN  /\ results_cache' = StoreResult(results_cache, scan_id, ModelDump(result))
             /\ last_scan' = << [content |-> content, filename |-> filename, hint |-> hint,
                                 enabled |-> enabled, result |-> result] >>
             /\ returned' = returned \cup {scan_id}
    /\ clock' = clock + 1
    /\ UNCHANGED <<detectors, response, fx, det, penta, threadVars, life, mt, probe,
                   sessionVars, sdk>>

\* GET /v1/results/{scan_id}: verify_api_key, then get_result
GetResult(scan_id, api_key) ==
    /\ LET auth == VerifyApiKey(api_key)
       IN  response' =
             IF auth # 0
             THEN [status |-> auth, api_key |-> api_key, scan_id |-> None, body |-> << >>]
             ELSE IF scan_id \notin DOMAIN results_cache
             THEN [status |-> 404, api_key |-> api_key, scan_id |-> scan_id, body |-> << >>]
             ELSE [status |-> 200, api_key |-> api_key, scan_id |-> scan_id,
                   body |-> << ParseScanResult(results_cache[scan_id]) >>]
    /\ UNCHANGED <<detectors, results_cache, last_scan, clock, returned, fx, det, penta,
                   threadVars, life, mt, probe, sessionVars, sdk>>

ScanStep == \E content \in Contents, a \in ScanArgs : Scan(content, a[1], a[2])
GetResultStep == \E scan_id \in LookupIds, api_key \in ApiKeys : GetResult(scan_id, api_key)

Next == RegisterAll \/ Reset \/ ScanStep \/ GetResultStep

Spec == Init /\ [][Next]_vars

(***************************************************************************)
(* PentaShieldEngine.analyze on its own                                    *)
(***************************************************************************)
FusedScores == {0, 800, 5000, 9200, 10000}

\* PentaShieldEngine.analyze(detector_results, fused_score, ...)
Analyze(hydra, sentinel, fused_score) ==
    /\ penta' = [op |-> "analyze", fused_score |-> fused_score,
                 result |-> PentaShieldResult(hydra, sentinel, fused_score)]
    /\ UNCHANGED <<detectors, results_cache, last_scan, response, clock, returned, fx, det,
                   threadVars, life, mt, probe, sessionVars, sdk>>

NextShield ==
    \E hydra \in HydraResults, sentinel \in SentinelResults, fused_score \in FusedScores :
        Analyze(hydra, sentinel, fused_score)

SpecShield == Init /\ [][NextShield]_vars

(***************************************************************************)
(* The fusion layer on its own: the arguments are drawn by the initial     *)
(* state, one step applies fuse or compute to them.                        *)
(***************************************************************************)
\* Detector-result dicts handed to fuse: well-formed ones, and ones with a
\* value outside [0,1] or a key missing.
InRangeResults == [score : {0, 2500, 5000, 9000, 10000}, confidence : {0, 5000, 10000}]
OddResults ==
    {[score |-> 15000, confidence |-> 10000],
     [score |-> 5000, confidence |-> 15000],
     [score |-> 5000, confidence |-> -3000],
     [score |-> 9000],
     [k \in {} |-> 0]}
ModalityInputs ==
    {<< >>} \cup {<<r>> : r \in InRangeResults \cup OddResults}
        \cup {<<[score |-> 9000, confidence |-> 10000], [score |-> 2500, confidence |-> 5000]>>,
              <<[score |-> 5000, confidence |-> 0], [score |-> 5000, confidence |-> 0]>>,
              <<[score |-> 0, confidence |-> 10000], [score |-> 10000, confidence |-> 10000]>>}

\* Arguments of compute, in units of 1/Fine: the bucket boundaries and their
\* neighbours, the ends of the range and values outside it.
ComputeFusedScores ==
    {-50000, 0, 8000, 19994, 19996, 20000, 20004, 20006, 39996, 40000, 40004, 50000,
     59996, 60000, 60004, 79996, 80000, 80004, 92000, 100000, 150000}
ComputeConfidences == {-30000, 0, 12344, 12346, 50000, 95000, 100000, 150000}

InitFusionCall ==
    /\ detectors = << >>
    /\ results_cache = << >>
    /\ last_scan = << >>
    /\ response = [status |-> 0, api_key |-> None, scan_id |-> None, body |-> << >>]
    /\ clock = 0
    /\ returned = {}
    /\ instance = NoObject
    /\ lock = NoThread
    /\ heap = << >>
    /\ pc = [t \in Threads |-> "idle"]
    /\ local = [t \in Threads |-> IdleLocal]
    /\ calls = 0
    /\ life = IdleLife
    /\ session = NoSession
    /\ reply = [op |-> "none"]
    /\ sdk = [op |-> "none"]
    /\ mt = [op |-> "none"]
    /\ probe = [op |-> "none"]
    /\ det = [op |-> "none"]
    /\ penta = [op |-> "none"]
    /\ \/ \E v \in ModalityInputs, a \in ModalityInputs, t \in ModalityInputs :
             fx = [op |-> "fuse_call", visual_results |-> v, audio_results |-> a,
                   text_results |-> t]
       \/ \E f \in ComputeFusedScores, c \in ComputeConfidences :
             fx = [op |-> "compute_call", fused_score |-> f, confidence |-> c]

FuseStep ==
    /\ fx.op = "fuse_call"
    /\ fx' = [op |-> "fuse", visual_results |-> fx.visual_results,
              audio_results |-> fx.audio_results, text_results |-> fx.text_results,
              out |-> Fuse(fx.visual_results, fx.audio_results, fx.text_results)]
    /\ UNCHANGED <<detectors, results_cache, last_scan, response, clock, returned, det, penta,
                   threadVars, life, mt, probe, sessionVars, sdk>>

ComputeStep ==
    /\ fx.op = "compute_call"
    /\ fx' = [op |-> "compute", fused_score |-> fx.fused_score, confidence |-> fx.confidence,
              out |-> Compute(fx.fused_score, fx.confidence)]
    /\ UNCHANGED <<detectors, results_cache, last_scan, response, clock, returned, det, penta,
                   threadVars, life, mt, probe, sessionVars, sdk>>

NextFusion == FuseStep \/ ComputeStep

SpecFusion == InitFusionCall /\ [][NextFusion]_vars

(***************************************************************************)
(* The detector-call boundary: core/base_detector.py (DetectorResult and   *)
(* BaseDetector.detect), core/visual/efficientnet_detector.py and the      *)
(* detectors of tests/unit/test_base_detector.py.                          *)
(***************************************************************************)
\* DetectorResult(...): score and confidence are clamped into [0,1].
DetectorResult(name, dtype, score, confidence, method, status, details) ==
    [detector_name |-> name, detector_type |-> dtype,
     score |-> Max(0, Min(Unit, score)),
     confidence |-> Max(0, Min(Unit, confidence)),
     method |-> method, status |-> status, details |-> details]

\* A frame is named by the fake-probability the network gives it; RaisingFrame
\* is a frame on which the transform or the network raises.
RaisingFrame == 0 - 1
FrameValues == {RaisingFrame, 0, 5000, 10000}
FrameLimit == 16

\* The outcome of a _run_detection call: a returned result or a raised error.
Returned(result) == [raised |-> FALSE, result |-> result, error |-> None]
Raised(error) == [raised |-> TRUE, result |-> << >>, error |-> error]

\* EfficientNetDetector._run_detection(inp), model_loaded being self.model is not None
EfficientNetRunDetection_ZeroOnError(inp, model_loaded) ==
    LET frames == IF inp.frames # << >> THEN inp.frames ELSE inp.image
        used == SubSeq(frames, 1, Min(Len(frames), FrameLimit))
        n == Len(used)
        sum == SumSeq(used)
        sumsq == SumSeq([i \in 1..n |-> used[i] * used[i]])
        avg == RoundDiv(sum, n)
        std == RoundDiv(Sqrt(n * sumsq - sum * sum), n)
    IN  IF frames = << >>
        THEN Returned(DetectorResult("efficientnet_b0", "visual", Unit \div 2, 0,
                                     "efficientnet_skip", "SKIPPED", << >>))
        ELSE IF ~model_loaded
        THEN Returned(DetectorResult("efficientnet_b0", "visual", Unit \div 2, Unit \div 10,
                                     "efficientnet_stub", "PASS", [mode |-> "stub"]))
        ELSE IF \E i \in 1..n : used[i] = RaisingFrame
        THEN Returned(DetectorResult("efficientnet_b0", "visual", 0, 0,
                                     "efficientnet_error", "ERROR", [error |-> "bad frame"]))
        ELSE Returned(DetectorResult("efficientnet_b0", "visual", avg,
                                     Max(Unit \div 10, Unit - 2 * std),
                                     "efficientnet_ff++", "PASS", [n_frames |-> n, std |-> std]))

EfficientNetRunDetection(inp, model_loaded) ==
    LET frames == IF inp.frames # << >> THEN inp.frames ELSE inp.image
        used == SubSeq(frames, 1, Min(Len(frames), FrameLimit))
        n == Len(used)
        sum == SumSeq(used)
        sumsq == SumSeq([i \in 1..n |-> used[i] * used[i]])
        avg == RoundDiv(sum, n)
        std == RoundDiv(Sqrt(n * sumsq - sum * sum), n)
    IN  IF frames = << >>
        THEN Returned(DetectorResult("efficientnet_b0", "visual", Unit \div 2, 0,
                                     "efficientnet_skip", "SKIPPED", << >>))
        ELSE IF ~model_loaded
        THEN Returned(DetectorResult("efficientnet_b0", "visual", Unit \div 2, Unit \div 10,
                                     "efficientnet_stub", "PASS", [mode |-> "stub"]))
        ELSE IF \E i \in 1..n : used[i] = RaisingFrame
        THEN Returned(DetectorResult("efficientnet_b0", "visual", Unit \div 2, 0,
                                     "efficientnet_error", "ERROR", [error |-> "bad frame"]))
        ELSE Returned(DetectorResult("efficientnet_b0", "visual", avg,
                                     Max(Unit \div 10, Unit - 2 * std),
                                     "efficientnet_ff++", "PASS", [n_frames |-> n, std |-> std]))

\* MockDetector._run_detection and FailingDetector._run_detection of the tests
MockRunDetection(inp) ==
    Returned(DetectorResult("mock_detector", "visual", (8 * Unit) \div 10, (95 * Unit) \div 100,
                            "mock_method", "PASS", << >>))
FailingRunDetection(inp) == Raised("Intentional failure")

\* detector._run_detection(inp), by detector name
RunDetection(name, inp, model_loaded) ==
    CASE name = "efficientnet_b0" -> EfficientNetRunDetection(inp, model_loaded)
      [] name = "mock_detector" -> MockRunDetection(inp)
      [] name = "failing_detector" -> FailingRunDetection(inp)

\* BaseDetector.detect(inp): the detection step runs inside the try of the
\* call boundary; what it raises becomes an ERROR result with the error text.
Detect(name, inp, model_loaded) ==
    LET step == RunDetection(name, inp, model_loaded)
    IN  IF step.raised
        THEN Returned(DetectorResult(name, "visual", Unit \div 2, 0, "", "ERROR",
                                     [error |-> step.error]))
        ELSE Returned(step.result)

RECURSIVE SeqsUpTo(_, _)
SeqsUpTo(S, n) ==
    IF n = 0 THEN {<< >>}
    ELSE LET shorter == SeqsUpTo(S, n - 1)
         IN  shorter \cup {Append(q, x) : q \in shorter, x \in S}

DetectorInputs ==
    [frames : SeqsUpTo(FrameValues, MaxFrames),
     image : {<< >>} \cup {<<x>> : x \in FrameValues}]

InitDetectCall ==
    /\ detectors = << >>
    /\ results_cache = << >>
    /\ last_scan = << >>
    /\ response = [status |-> 0, api_key |-> None, scan_id |-> None, body |-> << >>]
    /\ clock = 0
    /\ returned = {}
    /\ instance = NoObject
    /\ lock = NoThread
    /\ heap = << >>
    /\ pc = [t \in Threads |-> "idle"]
    /\ local = [t \in Threads |-> IdleLocal]
    /\ calls = 0
    /\ life = IdleLife
    /\ session = NoSession
    /\ reply = [op |-> "none"]
    /\ sdk = [op |-> "none"]
    /\ mt = [op |-> "none"]
    /\ probe = [op |-> "none"]
    /\ fx = [op |-> "none"]
    /\ penta = [op |-> "none"]
    /\ \E name \in {DetectorList[i] : i \in 1..Len(DetectorList)},
          inp \in DetectorInputs, model_loaded \in BOOLEAN :
           det = [op |-> "detect_call", detector |-> name, inp |-> inp,
                  model_loaded |-> model_loaded]

\* await detector.detect(inp)
DetectStep ==
    /\ det.op = "detect_call"
    /\ det' = [op |-> "detect", detector |-> det.detector, inp |-> det.inp,
               model_loaded |-> det.model_loaded,
               outcome |-> Detect(det.detector, det.inp, det.model_loaded)]
    /\ UNCHANGED <<detectors, results_cache, last_scan, response, clock, returned, fx, penta,
                   threadVars, life, mt, probe, sessionVars, sdk>>

NextDetect == DetectStep

SpecDetect == InitDetectCall /\ [][NextDetect]_vars

(***************************************************************************)
(* DetectorRegistry under threads: every thread runs registry calls, one   *)
(* bytecode-sized step at a time; the interpreter may switch threads       *)
(* between any two steps.                                                  *)
(***************************************************************************)
\* __new__, line 24: the unlocked first check of cls._instance
NewCheck(t) ==
    /\ pc[t] = "idle"
    /\ calls < MaxCalls
    /\ calls' = calls + 1
    /\ pc' = [pc EXCEPT ![t] = IF instance = NoObject THEN "new_lock" ELSE "new_return"]
    /\ local' = [local EXCEPT ![t] = [IdleLocal EXCEPT !.op = "new", !.self = local[t].self]]
    /\ UNCHANGED <<instance, lock, heap, coreVars>>

\* __new__, line 25: with cls._lock
NewAcquire(t) ==
    /\ pc[t] = "new_lock"
    /\ lock = NoThread
    /\ lock' = t
    /\ pc' = [pc EXCEPT ![t] = "new_recheck"]
    /\ UNCHANGED <<instance, heap, local, calls, coreVars>>

\* __new__, line 26: the second check, under the lock
NewRecheck(t) ==
    /\ pc[t] = "new_recheck"
    /\ pc' = [pc EXCEPT ![t] = IF instance = NoObject THEN "new_alloc" ELSE "new_release"]
    /\ UNCHANGED <<instance, lock, heap, local, calls, coreVars>>

\* __new__, line 27: the new object is stored in cls._instance at once
NewAlloc(t) ==
    /\ pc[t] = "new_alloc"
    /\ heap' = Append(heap, [has_detectors |-> FALSE, entries |-> << >>, inits |-> 0])
    /\ instance' = Len(heap) + 1
    /\ pc' = [pc EXCEPT ![t] = "new_init"]
    /\ UNCHANGED <<lock, local, calls, coreVars>>

\* __new__, line 28: cls._instance._detectors = {}
NewInit(t) ==
    /\ pc[t] = "new_init"
    /\ heap' = [heap EXCEPT ![instance] =
                  [has_detectors |-> TRUE, entries |-> << >>, inits |-> @.inits + 1]]
    /\ pc' = [pc EXCEPT ![t] = "new_release"]
    /\ UNCHANGED <<instance, lock, local, calls, coreVars>>

\* __new__: the with block of line 25 ends
NewRelease(t) ==
    /\ pc[t] = "new_release"
    /\ lock' = NoThread
    /\ pc' = [pc EXCEPT ![t] = "new_return"]
    /\ UNCHANGED <<instance, heap, local, calls, coreVars>>

\* __new__, line 29: return cls._instance, read outside the lock; the caller
\* keeps the value as its registry (registry = DetectorRegistry()).
NewReturn(t) ==
    /\ pc[t] = "new_return"
    /\ local' = [local EXCEPT ![t] =
                   [@ EXCEPT !.ret = instance, !.self = instance, !.outcome = "ok",
                             !.ret_inits = IF instance = NoObject THEN 0
                                           ELSE heap[instance].inits]]
    /\ pc' = [pc EXCEPT ![t] = "idle"]
    /\ UNCHANGED <<instance, lock, heap, calls, coreVars>>

\* reset, line 64: with cls._lock
ResetAcquire(t) ==
    /\ pc[t] = "idle"
    /\ calls < MaxCalls
    /\ lock = NoThread
    /\ calls' = calls + 1
    /\ lock' = t
    /\ local' = [local EXCEPT ![t] = [IdleLocal EXCEPT !.op = "reset", !.self = local[t].self]]
    /\ pc' = [pc EXCEPT ![t] = "reset_clear"]
    /\ UNCHANGED <<instance, heap, coreVars>>

\* reset, lines 65-66: the current instance's map is cleared
ResetClear(t) ==
    /\ pc[t] = "reset_clear"
    /\ heap' = IF instance # NoObject
               THEN [heap EXCEPT ![instance].entries = << >>]
               ELSE heap
    /\ pc' = [pc EXCEPT ![t] = "reset_unpublish"]
    /\ UNCHANGED <<instance, lock, local, calls, coreVars>>

\* reset, line 67, and the end of the with block
ResetUnpublish(t) ==
    /\ pc[t] = "reset_unpublish"
    /\ instance' = NoObject
    /\ lock' = NoThread
    /\ local' = [local EXCEPT ![t].outcome = "ok"]
    /\ pc' = [pc EXCEPT ![t] = "idle"]
    /\ UNCHANGED <<heap, calls, coreVars>>

\* register(detector), line 33: one dict store, no lock taken
Register(t, name) ==
    /\ pc[t] = "idle"
    /\ calls < MaxCalls
    /\ local[t].self # NoObject
    /\ calls' = calls + 1
    /\ LET self == local[t].self
       IN  IF heap[self].has_detectors
           THEN /\ heap' = [heap EXCEPT ![self].entries = DictSet(@, name)]
                /\ local' = [local EXCEPT ![t] =
                               [IdleLocal EXCEPT !.op = "register", !.self = self,
                                                 !.outcome = "ok"]]
           ELSE /\ heap' = heap
                /\ local' = [local EXCEPT ![t] =
                               [IdleLocal EXCEPT !.op = "register", !.self = self,
                                                 !.outcome = "AttributeError"]]
    /\ UNCHANGED <<instance, lock, pc, coreVars>>

\* unregister(name), line 37: one dict pop, no lock taken
Unregister(t, name) ==
    /\ pc[t] = "idle"
    /\ calls < MaxCalls
    /\ local[t].self # NoObject
    /\ calls' = calls + 1
    /\ LET self == local[t].self
       IN  IF heap[self].has_detectors
           THEN /\ heap' = [heap EXCEPT ![self].entries = DictPop(@, name)]
                /\ local' = [local EXCEPT ![t] =
                               [IdleLocal EXCEPT !.op = "unregister", !.self = self,
                                                 !.outcome = "ok"]]
           ELSE /\ heap' = heap
                /\ local' = [local EXCEPT ![t] =
                               [IdleLocal EXCEPT !.op = "unregister", !.self = self,
                                                 !.outcome = "AttributeError"]]
    /\ UNCHANGED <<instance, lock, pc, coreVars>>

\* get_enabled, line 49: one turn of the comprehension over
\* self._detectors.values().  The dict iterator raises RuntimeError when the
\* dict's size is no longer the one it recorded at its creation; otherwise
\* it yields the next entry, which is kept if the detector is enabled, or it
\* ends the list.
ComprehensionTurn(l, entries) ==
    LET rest == {i \in Live(entries) : i > l.it_pos}
    IN  IF l.it_used # Used(entries)
        THEN [l EXCEPT !.outcome = "RuntimeError", !.acc = << >>]
        ELSE IF rest = {}
        THEN [l EXCEPT !.outcome = "ok"]
        ELSE LET j == CHOOSE i \in rest : \A k \in rest : i <= k
             IN  [l EXCEPT !.it_pos = j,
                           !.acc = IF Enabled(entries[j]) THEN Append(@, entries[j]) ELSE @]

\* get_enabled, line 49, up to the first switch point inside the loop: the
\* map is read (AttributeError if the object has none yet), its values
\* iterator is created and the first turn is taken.
GetEnabledBegin(t) ==
    /\ pc[t] = "idle"
    /\ calls < MaxCalls
    /\ local[t].self # NoObject
    /\ calls' = calls + 1
    /\ LET self == local[t].self
           start == [IdleLocal EXCEPT !.op = "get_enabled", !.self = self]
       IN  IF heap[self].has_detectors
           THEN LET l == ComprehensionTurn(
                            [start EXCEPT !.it_used = Used(heap[self].entries)],
                            heap[self].entries)
                IN  /\ local' = [local EXCEPT ![t] = l]
                    /\ pc' = [pc EXCEPT ![t] = IF l.outcome = "none"
                                               THEN "get_enabled_next" ELSE "idle"]
           ELSE /\ local' = [local EXCEPT ![t] = [start EXCEPT !.outcome = "AttributeError"]]
                /\ pc' = pc
    /\ UNCHANGED <<instance, lock, heap, coreVars>>

\* get_enabled, line 49: a later turn of the comprehension
GetEnabledNext(t) ==
    /\ pc[t] = "get_enabled_next"
    /\ LET l == ComprehensionTurn(local[t], heap[local[t].self].entries)
       IN  /\ local' = [local EXCEPT ![t] = l]
           /\ pc' = [pc EXCEPT ![t] = IF l.outcome = "none" THEN "get_enabled_next" ELSE "idle"]
    /\ UNCHANGED <<instance, lock, heap, calls, coreVars>>

NewStep == \E t \in Threads :
    NewCheck(t) \/ NewAcquire(t) \/ NewRecheck(t) \/ NewAlloc(t) \/ NewInit(t)
        \/ NewRelease(t) \/ NewReturn(t)
ResetStep == \E t \in Threads : ResetAcquire(t) \/ ResetClear(t) \/ ResetUnpublish(t)
RegisterStep == \E t \in Threads, name \in ThreadDetectors : Register(t, name)
UnregisterStep == \E t \in Threads, name \in ThreadDetectors : Unregister(t, name)
GetEnabledStep == \E t \in Threads : GetEnabledBegin(t) \/ GetEnabledNext(t)

NextRegistry == NewStep \/ ResetStep \/ RegisterStep \/ UnregisterStep \/ GetEnabledStep

SpecRegistry == Init /\ [][NextRegistry]_vars

(***************************************************************************)
(* The application lifespan (main.py lines 18-33): startup registers and   *)
(* loads the detectors, shutdown runs DetectorRegistry.shutdown_all.  All  *)
(* of it runs in one event loop; other tasks run only at an await.         *)
(***************************************************************************)
DetectorNames == {DetectorList[i] : i \in 1..Len(DetectorList)}

\* lifespan lines 25-26 and _register_all_detectors lines 87-91: the registry
\* is obtained, every detector is registered, then the loads are started.
LifespanStartup ==
    /\ life.phase = "created"
    /\ detectors' = RegisterLoop(detectors, DetectorList)
    /\ life' = [life EXCEPT !.phase = "loading"]
    /\ UNCHANGED <<results_cache, last_scan, response, clock, returned, fx, det, penta,
                   threadVars, mt, probe, sessionVars, sdk>>

\* one ensure_loaded ends; a detector whose load failed is unregistered
EnsureLoaded_FailureUnregisters(name, ok) ==
    /\ life.phase = "loading"
    /\ name \notin life.loaded \cup life.load_failed
    /\ life' = IF ok THEN [life EXCEPT !.loaded = @ \cup {name}]
                     ELSE [life EXCEPT !.load_failed = @ \cup {name}]
    /\ detectors' = IF ok THEN detectors ELSE SelectSeq(detectors, LAMBDA d : d # name)
    /\ UNCHANGED <<results_cache, last_scan, response, clock, returned, fx, det,
                   penta, threadVars, mt, probe, sessionVars, sdk>>

\* _register_all_detectors lines 91-94: one ensure_loaded of the gather ends,
\* with a loaded model or with an exception that gather returns as a value.
EnsureLoaded(name, ok) ==
    /\ life.phase = "loading"
    /\ name \notin life.loaded \cup life.load_failed
    /\ life' = IF ok THEN [life EXCEPT !.loaded = @ \cup {name}]
                     ELSE [life EXCEPT !.load_failed = @ \cup {name}]
    /\ UNCHANGED <<detectors, results_cache, last_scan, response, clock, returned, fx, det,
                   penta, threadVars, mt, probe, sessionVars, sdk>>

\* _register_all_detectors lines 95-97 and lifespan lines 27-29: the gather
\* is complete, failures are logged, the application starts serving.
LifespanServe ==
    /\ life.phase = "loading"
    /\ life.loaded \cup life.load_failed = DetectorNames
    /\ life' = [life EXCEPT !.phase = "serving"]
    /\ UNCHANGED <<detectors, results_cache, last_scan, response, clock, returned, fx, det,
                   penta, threadVars, mt, probe, sessionVars, sdk>>

\* lifespan line 33 and shutdown_all line 58: the loop over
\* self._detectors.values() begins.
ShutdownBegin ==
    /\ life.phase = "serving"
    /\ life' = [life EXCEPT !.phase = "shutdown_next", !.it_used = Len(detectors),
                            !.at_begin = detectors]
    /\ UNCHANGED <<detectors, results_cache, last_scan, response, clock, returned, fx, det,
                   penta, threadVars, mt, probe, sessionVars, sdk>>

\* shutdown_all lines 58-59: the iterator yields the next detector and its
\* shutdown hook is invoked, or the loop ends.  The dict iterator raises
\* RuntimeError when the size of the dict is not the one it started with
\* ("changed size during iteration") and when it finds an entry after having
\* yielded that many ("keys changed during iteration").
ShutdownInvoke ==
    /\ life.phase = "shutdown_next"
    /\ life' = IF life.it_used # Len(detectors)
               THEN [life EXCEPT !.phase = "stopped", !.outcome = "RuntimeError"]
               ELSE IF life.it_pos >= Len(detectors)
               THEN [life EXCEPT !.phase = "stopped", !.outcome = "ok"]
               ELSE IF Len(life.invoked) >= life.it_used
               THEN [life EXCEPT !.phase = "stopped", !.outcome = "RuntimeError"]
               ELSE [life EXCEPT !.phase = "shutdown_await", !.it_pos = @ + 1,
                                 !.invoked = Append(@, detectors[life.it_pos + 1])]
    /\ UNCHANGED <<detectors, results_cache, last_scan, response, clock, returned, fx, det,
                   penta, threadVars, mt, probe, sessionVars, sdk>>

\* shutdown_all line 59: the awaited hook ends.  Nothing catches what it
\* raises: the exception leaves the loop and shutdown_all.
ShutdownResume(raises) ==
    /\ life.phase = "shutdown_await"
    /\ life' = IF raises
               THEN [life EXCEPT !.phase = "stopped", !.outcome = "hook_raised"]
               ELSE [life EXCEPT !.phase = "shutdown_next"]
    /\ UNCHANGED <<detectors, results_cache, last_scan, response, clock, returned, fx, det,
                   penta, threadVars, mt, probe, sessionVars, sdk>>

\* Another task runs registry.register(detector) while shutdown_all waits at
\* line 59 (registry.py lines 31-34): a new name is added at the end of the
\* dict, a name already present keeps its entry.  MaxLateCalls bounds the
\* number of register / unregister calls during one shutdown_all.
RegisterAtAwait(name) ==
    /\ life.phase = "shutdown_await"
    /\ life.late_calls < MaxLateCalls
    /\ detectors' = RegistryRegister(detectors, name)
    /\ life' = [life EXCEPT !.late_calls = @ + 1]
    /\ UNCHANGED <<results_cache, last_scan, response, clock, returned, fx, det, penta,
                   threadVars, mt, probe, sessionVars, sdk>>

\* Another task runs registry.unregister(name) while shutdown_all waits at
\* line 59 (registry.py lines 36-37): the entry is taken out of the dict.  The
\* iterator of shutdown_all keeps its place among the entries left: a removed
\* entry it had passed moves its position back by one.
UnregisterAtAwait(name) ==
    /\ life.phase = "shutdown_await"
    /\ life.late_calls < MaxLateCalls
    /\ detectors' = SelectSeq(detectors, LAMBDA d : d # name)
    /\ life' = IF \E i \in 1..life.it_pos : i <= Len(detectors) /\ detectors[i] = name
               THEN [life EXCEPT !.it_pos = @ - 1, !.late_calls = @ + 1]
               ELSE [life EXCEPT !.late_calls = @ + 1]
    /\ UNCHANGED <<results_cache, last_scan, response, clock, returned, fx, det, penta,
                   threadVars, mt, probe, sessionVars, sdk>>

EnsureLoadedStep == \E name \in DetectorNames, ok \in BOOLEAN : EnsureLoaded(name, ok)
ShutdownResumeStep == \E raises \in BOOLEAN : ShutdownResume(raises)
\* Other tasks pass the detectors of the deployment and one more.
RegisterAtAwaitStep ==
    \E name \in DetectorNames \cup {"late_detector"} : RegisterAtAwait(name)
UnregisterAtAwaitStep ==
    \E name \in DetectorNames \cup {"late_detector"} : UnregisterAtAwait(name)

NextLifespan ==
    LifespanStartup \/ EnsureLoadedStep \/ LifespanServe \/ ShutdownBegin \/ ShutdownInvoke
        \/ ShutdownResumeStep \/ RegisterAtAwaitStep \/ UnregisterAtAwaitStep

SpecLifespan == Init /\ [][NextLifespan]_vars

(***************************************************************************)
(* ScanOrchestrator._detect_media_type on its own: the arguments are drawn *)
(* by the initial state, one step applies the function.                    *)
(***************************************************************************)
InitMediaTypeCall ==
    /\ detectors = << >>
    /\ results_cache = << >>
    /\ last_scan = << >>
    /\ response = [status |-> 0, api_key |-> None, scan_id |-> None, body |-> << >>]
    /\ clock = 0
    /\ returned = {}
    /\ instance = NoObject
    /\ lock = NoThread
    /\ heap = << >>
    /\ pc = [t \in Threads |-> "idle"]
    /\ local = [t \in Threads |-> IdleLocal]
    /\ calls = 0
    /\ life = IdleLife
    /\ session = NoSession
    /\ reply = [op |-> "none"]
    /\ sdk = [op |-> "none"]
    /\ probe = [op |-> "none"]
    /\ fx = [op |-> "none"]
    /\ det = [op |-> "none"]
    /\ penta = [op |-> "none"]
    /\ \E filename \in Filenames, hint \in Hints :
           mt = [op |-> "detect_call", filename |-> filename, hint |-> hint]

\* self._detect_media_type(filename, media_type_hint)
DetectMediaTypeStep ==
    /\ mt.op = "detect_call"
    /\ mt' = [op |-> "detect", filename |-> mt.filename, hint |-> mt.hint,
              result |-> DetectMediaType(mt.filename, mt.hint)]
    /\ UNCHANGED <<detectors, results_cache, last_scan, response, clock, returned, fx, det,
                   penta, threadVars, life, probe, sessionVars, sdk>>

NextMediaType == DetectMediaTypeStep

SpecMediaType == InitMediaTypeCall /\ [][NextMediaType]_vars

(***************************************************************************)
(* pentashield/active_probe/challenge_protocol.py: ChallengeProtocol.      *)
(* generate_session_challenges.  The arguments are drawn by the initial    *)
(* state; every random.choice, token and shuffle is a free choice.         *)
(***************************************************************************)
KnownTypes == {"light", "motion", "audio"}

\* secrets.token_hex(8): 64 random bits; two values stand for them
Tokens == {"3f9a61c2d07be485", "c4e1027a9b5d63f8"}

\* The challenge_types argument: << >> is None, << list >> a list.
ChallengeTypeArgs ==
    {<< >>, << << >> >>, << <<"light">> >>, << <<"light", "motion">> >>,
     << <<"light", "motion", "audio">> >>, << <<"light", "light", "motion">> >>,
     << <<"light", "gesture">> >>}

\* lines 83-84: the default of challenge_types
ResolveTypes(challenge_types) ==
    IF challenge_types = << >> THEN <<"light", "motion">> ELSE challenge_types[1]

\* lines 91-92: the refill of available_types once it is exhausted
Refill_Always(available_types, challenge_types) == challenge_types

Refill(available_types, challenge_types) ==
    IF available_types = << >> THEN challenge_types ELSE available_types

\* list.remove(x): the first element equal to x is taken out
ListRemove(list, x) ==
    LET k == CHOOSE i \in 1..Len(list) : list[i] = x /\ \A j \in 1..(i - 1) : list[j] # x
    IN  [i \in 1..(Len(list) - 1) |-> IF i < k THEN list[i] ELSE list[i + 1]]

\* _generate_light_challenge / _generate_motion_challenge /
\* _generate_audio_challenge: the Challenge, by its type and its id
Challenge(challenge_type, token) ==
    [challenge_type |-> challenge_type,
     challenge_id |-> [prefix |-> challenge_type, token |-> token]]

\* The orders random.shuffle can leave a list in
Shuffles(list) ==
    LET n == Len(list)
        perms == {f \in [1..n -> 1..n] : \A i, j \in 1..n : f[i] = f[j] => i = j}
    IN  {[i \in 1..n |-> list[f[i]]] : f \in perms}

InitGenerateCall ==
    /\ detectors = << >>
    /\ results_cache = << >>
    /\ last_scan = << >>
    /\ response = [status |-> 0, api_key |-> None, scan_id |-> None, body |-> << >>]
    /\ clock = 0
    /\ returned = {}
    /\ instance = NoObject
    /\ lock = NoThread
    /\ heap = << >>
    /\ pc = [t \in Threads |-> "idle"]
    /\ local = [t \in Threads |-> IdleLocal]
    /\ calls = 0
    /\ life = IdleLife
    /\ session = NoSession
    /\ reply = [op |-> "none"]
    /\ sdk = [op |-> "none"]
    /\ mt = [op |-> "none"]
    /\ fx = [op |-> "none"]
    /\ det = [op |-> "none"]
    /\ penta = [op |-> "none"]
    /\ \E n \in 0..MaxChallenges, types \in ChallengeTypeArgs :
           probe = [op |-> "generate_call", num_challenges |-> n, challenge_types |-> types]

\* generate_session_challenges lines 83-87: the default is applied, the
\* result list and the pool of available types are set up.
GenerateBegin ==
    /\ probe.op = "generate_call"
    /\ LET types == ResolveTypes(probe.challenge_types)
       IN  probe' = [op |-> "generate_loop", num_challenges |-> probe.num_challenges,
                     challenge_types |-> types, available_types |-> types,
                     challenges |-> << >>, drawn |-> << >>]
    /\ UNCHANGED <<detectors, results_cache, last_scan, response, clock, returned, fx, det,
                   penta, threadVars, life, mt, sessionVars, sdk>>

\* generate_session_challenges lines 89-107: one turn of the loop.  The pool
\* is refilled when empty, a type is chosen from it (random.choice raises
\* IndexError on an empty pool) and removed; a challenge of that type is
\* appended, a type that is none of light / motion / audio is skipped.
GenerateTurn ==
    /\ probe.op = "generate_loop"
    /\ Len(probe.drawn) < probe.num_challenges
    /\ LET pool == Refill(probe.available_types, probe.challenge_types)
       IN  IF pool = << >>
           THEN probe' = [op |-> "generate_raised", num_challenges |-> probe.num_challenges,
                          challenge_types |-> probe.challenge_types,
                          drawn |-> probe.drawn, error |-> "IndexError"]
           ELSE \E k \in 1..Len(pool), token \in Tokens :
                    LET challenge_type == pool[k]
                    IN  probe' = [probe EXCEPT
                                    !.available_types = ListRemove(pool, challenge_type),
                                    !.drawn = Append(@, challenge_type),
                                    !.challenges =
                                        IF challenge_type \in KnownTypes
                                        THEN Append(@, Challenge(challenge_type, token))
                                        ELSE @]
    /\ UNCHANGED <<detectors, results_cache, last_scan, response, clock, returned, fx, det,
                   penta, threadVars, life, mt, sessionVars, sdk>>

\* generate_session_challenges lines 109-112: the list is shuffled and returned
GenerateReturn ==
    /\ probe.op = "generate_loop"
    /\ Len(probe.drawn) >= probe.num_challenges
    /\ \E shuffled \in Shuffles(probe.challenges) :
           probe' = [op |-> "generated", num_challenges |-> probe.num_challenges,
                     challenge_types |-> probe.challenge_types, drawn |-> probe.drawn,
                     challenges |-> shuffled]
    /\ UNCHANGED <<detectors, results_cache, last_scan, response, clock, returned, fx, det,
                   penta, threadVars, life, mt, sessionVars, sdk>>

NextGenerate == GenerateBegin \/ GenerateTurn \/ GenerateReturn

SpecGenerate == InitGenerateCall /\ [][NextGenerate]_vars

(***************************************************************************)
(* pentashield/active_probe/challenge_protocol.py: the class               *)
(* ChallengeProtocol in one process and its three challenge generators.    *)
(* The class body runs once, when the module is imported; after that the   *)
(* generators are called any number of times, for any session.  Every      *)
(* random draw is a free choice.                                           *)
(***************************************************************************)

\* random.randint(lo, hi): both ends included; the two ends stand for the
\* range
RandInt(lo, hi) == {lo, hi}

LIGHT_COLORS == {"#FFFFFF", "#000000", "#FF0000", "#00FF00", "#0000FF"}

\* MOTION_DIRECTIONS: the base angle of each direction
MOTION_DIRECTIONS ==
    [direction \in {"left", "right", "up", "down", "nod", "shake"} |->
        CASE direction \in {"left", "right"} -> 30
          [] direction \in {"up", "down"} -> 25
          [] direction \in {"nod", "shake"} -> 20]

\* AUDIO_CHALLENGES, number being the value that random.randint(1000, 9999)
\* returned when the class body ran (line 65); a text is a record, the
\* fixed ones by their words and the number by its digits
AUDIO_CHALLENGES(number) ==
    <<[text |-> [words |-> "3-5-7"], is_number |-> FALSE],
      [text |-> [words |-> "scanner-ultra"], is_number |-> FALSE],
      [text |-> [digits |-> number], is_number |-> TRUE]>>

\* _generate_light_challenge lines 127-139: the Challenge built from the
\* sequence
LightChallenge_FirstStepOnly(sequence, token) ==
    [challenge_type |-> "light",
     challenge_id |-> [prefix |-> "light", token |-> token],
     parameters |-> [sequence |-> sequence],
     expected_duration_ms |-> sequence[1].duration_ms]

LightChallenge(sequence, token) ==
    [challenge_type |-> "light",
     challenge_id |-> [prefix |-> "light", token |-> token],
     parameters |-> [sequence |-> sequence],
     expected_duration_ms |-> SumSeq([i \in 1..Len(sequence) |-> sequence[i].duration_ms])]

\* _generate_motion_challenge lines 141-162
MotionChallenge(direction, delta, duration, token) ==
    [challenge_type |-> "motion",
     challenge_id |-> [prefix |-> "motion", token |-> token],
     parameters |-> [direction |-> direction,
                     expected_angle |-> MOTION_DIRECTIONS[direction] + delta,
                     tolerance |-> 10],
     expected_duration_ms |-> duration]

\* _generate_audio_challenge lines 166-183; draw is the call of
\* random.randint(1000, 9999) that produced the number, 0 for a fixed text
\* (a field of the model, for the history of the draws)
AudioChallenge(audio, draw, duration, token) ==
    [challenge_type |-> "audio",
     challenge_id |-> [prefix |-> "audio", token |-> token],
     parameters |-> [expected_text |-> audio.text, language |-> "tr"],
     is_number |-> audio.is_number,
     draw |-> IF audio.is_number THEN draw ELSE 0,
     expected_duration_ms |-> duration]

InitProtocol ==
    /\ detectors = << >>
    /\ results_cache = << >>
    /\ last_scan = << >>
    /\ response = [status |-> 0, api_key |-> None, scan_id |-> None, body |-> << >>]
    /\ clock = 0
    /\ returned = {}
    /\ instance = NoObject
    /\ lock = NoThread
    /\ heap = << >>
    /\ pc = [t \in Threads |-> "idle"]
    /\ local = [t \in Threads |-> IdleLocal]
    /\ calls = 0
    /\ life = IdleLife
    /\ session = NoSession
    /\ reply = [op |-> "none"]
    /\ sdk = [op |-> "none"]
    /\ mt = [op |-> "none"]
    /\ fx = [op |-> "none"]
    /\ det = [op |-> "none"]
    /\ penta = [op |-> "none"]
    /\ \E number \in RandInt(1000, 9999) :
           probe = [op |-> "ready", number |-> number, number_draws |-> 1, issued |-> << >>,
                    num_flashes |-> 0, sequence |-> << >>, challenge |-> << >>]

\* A generator can be called: none is running.
ProtocolReady == probe.op \in {"ready", "light", "motion", "audio"}

\* _generate_light_challenge line 117: the number of flashes is drawn
GenerateLightBegin ==
    /\ ProtocolReady
    /\ \E num_flashes \in RandInt(2, 4) \cup {3} :
           probe' = [probe EXCEPT !.op = "light_loop", !.num_flashes = num_flashes,
                                  !.sequence = << >>, !.challenge = << >>]
    /\ UNCHANGED <<detectors, results_cache, last_scan, response, clock, returned, fx, det,
                   penta, threadVars, life, mt, sessionVars, sdk>>

\* _generate_light_challenge lines 120-123: one turn of the loop
GenerateLightTurn ==
    /\ probe.op = "light_loop"
    /\ Len(probe.sequence) < probe.num_flashes
    /\ \E color \in LIGHT_COLORS \cap {"#FFFFFF", "#FF0000"}, duration \in RandInt(400, 800) :
           probe' = [probe EXCEPT
                       !.sequence = Append(@, [color |-> color, duration_ms |-> duration])]
    /\ UNCHANGED <<detectors, results_cache, last_scan, response, clock, returned, fx, det,
                   penta, threadVars, life, mt, sessionVars, sdk>>

\* _generate_light_challenge lines 125-137: the id is drawn, the Challenge
\* is returned
GenerateLightReturn ==
    /\ probe.op = "light_loop"
    /\ Len(probe.sequence) >= probe.num_flashes
    /\ \E token \in Tokens :
           probe' = [probe EXCEPT !.op = "light",
                                  !.challenge = <<LightChallenge(probe.sequence, token)>>]
    /\ UNCHANGED <<detectors, results_cache, last_scan, response, clock, returned, fx, det,
                   penta, threadVars, life, mt, sessionVars, sdk>>

\* _generate_motion_challenge()
GenerateMotion ==
    /\ ProtocolReady
    /\ \E direction \in DOMAIN MOTION_DIRECTIONS, token \in Tokens,
          delta \in RandInt(-5, 5), duration \in RandInt(2000, 3500) :
           probe' = [probe EXCEPT
                       !.op = "motion", !.num_flashes = 0, !.sequence = << >>,
                       !.challenge = <<MotionChallenge(direction, delta, duration, token)>>]
    /\ UNCHANGED <<detectors, results_cache, last_scan, response, clock, returned, fx, det,
                   penta, threadVars, life, mt, sessionVars, sdk>>

\* _generate_audio_challenge(): an entry of the class attribute
\* AUDIO_CHALLENGES is chosen; its text is the one the class body stored, no
\* number is drawn by the call.
GenerateAudio ==
    /\ ProtocolReady
    /\ Len(probe.issued) < MaxAudioChallenges
    /\ \E k \in 1..3, token \in Tokens, duration \in RandInt(2000, 4000) :
           LET audio == AUDIO_CHALLENGES(probe.number)[k]
               challenge == AudioChallenge(audio, 1, duration, token)
           IN  probe' = [probe EXCEPT
                           !.op = "audio", !.num_flashes = 0, !.sequence = << >>,
                           !.challenge = <<challenge>>,
                           !.issued = Append(@, [expected_text |-> audio.text,
                                                 is_number |-> audio.is_number,
                                                 draw |-> challenge.draw])]
    /\ UNCHANGED <<detectors, results_cache, last_scan, response, clock, returned, fx, det,
                   penta, threadVars, life, mt, sessionVars, sdk>>

NextProtocol ==
    \/ GenerateLightBegin
    \/ GenerateLightTurn
    \/ GenerateLightReturn
    \/ GenerateMotion
    \/ GenerateAudio

SpecProtocol == InitProtocol /\ [][NextProtocol]_vars

(***************************************************************************)
(* pentashield/active_probe/light_challenge_passive.py and                 *)
(* motion_challenge_passive.py: LightChallenge.evaluate and                *)
(* MotionChallenge.evaluate.  What OpenCV measures on the frames is an      *)
(* argument of the model: each helper ends with min(1.0, max(0.0, ...)),   *)
(* so its measurement lies in [0,1]; it is held in units of 1/Fine, one    *)
(* decimal finer than the round(x, 4) of the result, whose fields are in   *)
(* units of 1/Unit.                                                        *)
(***************************************************************************)
LIGHT_MIN_FRAMES == 4
MOTION_MIN_FRAMES == 2

\* The frames argument: None, or a list of frames.
FramesArgs ==
    {[is_none |-> TRUE, list |-> << >>]}
        \cup {[is_none |-> FALSE, list |-> [i \in 1..n |-> "frame"]] : n \in 0..MaxProbeFrames}

Measurements == {0, 50000, 74990, 74996, Fine}

\* `not frames`: None and the empty list are falsy
NotFrames(frames) == frames.is_none \/ Len(frames.list) = 0

\* LightChallengeResult(): the dataclass defaults
DefaultLightResult_NotPassed ==
    [ambient_response_score |-> Unit, shadow_coherence |-> Unit, specular_response |-> Unit,
     overall_score |-> Unit, passed |-> FALSE]

DefaultLightResult ==
    [ambient_response_score |-> Unit, shadow_coherence |-> Unit, specular_response |-> Unit,
     overall_score |-> Unit, passed |-> TRUE]

\* MotionChallengeResult(): the dataclass defaults
DefaultMotionResult ==
    [flow_consistency |-> Unit, face_bg_ratio |-> Unit, temporal_smoothness |-> Unit,
     overall_score |-> Unit, passed |-> TRUE]

\* LightChallenge._ambient_response / _shadow_coherence / _specular_response:
\* 1.0 below their frame minimum, else the clamped measurement
AmbientResponse(list, measured) == IF Len(list) < 2 THEN Fine ELSE measured
ShadowCoherence(list, measured) == IF Len(list) < 4 THEN Fine ELSE measured
SpecularResponse(list, measured) == IF Len(list) < 4 THEN Fine ELSE measured

\* MotionChallenge._flow_consistency / _face_bg_ratio / _temporal_smoothness
FlowConsistency(list, measured) == IF Len(list) < 2 THEN Fine ELSE measured
FaceBgRatio(list, measured) == IF Len(list) < 2 THEN Fine ELSE measured
TemporalSmoothness(list, measured) == IF Len(list) < 3 THEN Fine ELSE measured

\* the weights 0.3 / 0.4 / 0.3 instead of 0.4 / 0.3 / 0.3
Weighted_SecondHeaviest(a, b, c) == 3 * a + 4 * b + 3 * c

\* 0.4 * a + 0.3 * b + 0.3 * c, in units of 1/(10 * Fine)
Weighted(a, b, c) == 4 * a + 3 * b + 3 * c

\* round(x, 4) of a value x / scale, in units of 1/Unit: the nearest unit, an
\* exact tie going to the even neighbour
RoundToUnit(x, scale) ==
    LET q == scale \div Unit
        lo == x \div q
        r == x - lo * q
    IN  IF 2 * r < q THEN lo
        ELSE IF 2 * r > q THEN lo + 1
        ELSE IF lo % 2 = 0 THEN lo ELSE lo + 1

\* LightChallenge.evaluate(frames) without the MIN_FRAMES conditions of
\* lines 51 and 54 and of the helpers
LightEvaluate_NoFrameMinimum(frames, ambient, shadow, specular) ==
    IF NotFrames(frames) \/ Len(frames.list) < 2
    THEN DefaultLightResult
    ELSE LET overall == Weighted(ambient, shadow, specular)
         IN  [ambient_response_score |-> RoundToUnit(ambient, Fine),
              shadow_coherence |-> RoundToUnit(shadow, Fine),
              specular_response |-> RoundToUnit(specular, Fine),
              overall_score |-> RoundToUnit(overall, 10 * Fine),
              passed |-> overall >= 6 * Fine]

\* LightChallenge.evaluate(frames)
LightEvaluate(frames, ambient, shadow, specular) ==
    IF NotFrames(frames) \/ Len(frames.list) < 2
    THEN DefaultLightResult
    ELSE LET ambient_score == AmbientResponse(frames.list, ambient)
             shadow_score == IF Len(frames.list) >= LIGHT_MIN_FRAMES
                             THEN ShadowCoherence(frames.list, shadow) ELSE Fine
             specular_score == IF Len(frames.list) >= LIGHT_MIN_FRAMES
                               THEN SpecularResponse(frames.list, specular) ELSE Fine
             overall == Weighted(ambient_score, shadow_score, specular_score)
         IN  [ambient_response_score |-> RoundToUnit(ambient_score, Fine),
              shadow_coherence |-> RoundToUnit(shadow_score, Fine),
              specular_response |-> RoundToUnit(specular_score, Fine),
              overall_score |-> RoundToUnit(overall, 10 * Fine),
              passed |-> overall >= 6 * Fine]

\* MotionChallenge.evaluate(frames)
MotionEvaluate(frames, flow, fb_ratio, smooth) ==
    IF NotFrames(frames) \/ Len(frames.list) < MOTION_MIN_FRAMES
    THEN DefaultMotionResult
    ELSE LET flow_score == FlowConsistency(frames.list, flow)
             fb_ratio_score == FaceBgRatio(frames.list, fb_ratio)
             smooth_score == TemporalSmoothness(frames.list, smooth)
             overall == Weighted(flow_score, fb_ratio_score, smooth_score)
         IN  [flow_consistency |-> RoundToUnit(flow_score, Fine),
              face_bg_ratio |-> RoundToUnit(fb_ratio_score, Fine),
              temporal_smoothness |-> RoundToUnit(smooth_score, Fine),
              overall_score |-> RoundToUnit(overall, 10 * Fine),
              passed |-> overall >= 6 * Fine]

InitEvaluateCall ==
    /\ detectors = << >>
    /\ results_cache = << >>
    /\ last_scan = << >>
    /\ response = [status |-> 0, api_key |-> None, scan_id |-> None, body |-> << >>]
    /\ clock = 0
    /\ returned = {}
    /\ instance = NoObject
    /\ lock = NoThread
    /\ heap = << >>
    /\ pc = [t \in Threads |-> "idle"]
    /\ local = [t \in Threads |-> IdleLocal]
    /\ calls = 0
    /\ life = IdleLife
    /\ session = NoSession
    /\ reply = [op |-> "none"]
    /\ sdk = [op |-> "none"]
    /\ mt = [op |-> "none"]
    /\ fx = [op |-> "none"]
    /\ det = [op |-> "none"]
    /\ penta = [op |-> "none"]
    /\ \E challenge \in {"light", "motion"}, frames \in FramesArgs,
          m1 \in Measurements, m2 \in Measurements, m3 \in Measurements :
           probe = [op |-> "evaluate_call", challenge |-> challenge, frames |-> frames,
                    measured |-> <<m1, m2, m3>>]

\* LightChallenge().evaluate(frames)
LightEvaluateStep ==
    /\ probe.op = "evaluate_call"
    /\ probe.challenge = "light"
    /\ probe' = [op |-> "evaluate", challenge |-> "light", frames |-> probe.frames,
                 measured |-> probe.measured,
                 result |-> LightEvaluate(probe.frames, probe.measured[1],
                                          probe.measured[2], probe.measured[3])]
    /\ UNCHANGED <<detectors, results_cache, last_scan, response, clock, returned, fx, det,
                   penta, threadVars, life, mt, sessionVars, sdk>>

\* MotionChallenge().evaluate(frames)
MotionEvaluateStep ==
    /\ probe.op = "evaluate_call"
    /\ probe.challenge = "motion"
    /\ probe' = [op |-> "evaluate", challenge |-> "motion", frames |-> probe.frames,
                 measured |-> probe.measured,
                 result |-> MotionEvaluate(probe.frames, probe.measured[1],
                                           probe.measured[2], probe.measured[3])]
    /\ UNCHANGED <<detectors, results_cache, last_scan, response, clock, returned, fx, det,
                   penta, threadVars, life, mt, sessionVars, sdk>>

NextEvaluate == LightEvaluateStep \/ MotionEvaluateStep

SpecEvaluate == InitEvaluateCall /\ [][NextEvaluate]_vars

(***************************************************************************)
(* The probe session (SessionManager / ProbeSession).  Its lifecycle is    *)
(* CREATED -> ISSUED -> IN_PROGRESS -> COMPLETED | EXPIRED | FAILED, with  *)
(* the operations createSession, submitResponse and finalize.              *)
(***************************************************************************)
TerminalStates == {"COMPLETED", "EXPIRED", "FAILED"}
ChallengeIds == <<"light_3f9a61c2d07be485", "motion_c4e1027a9b5d63f8", "light_c4e1027a9b5d63f8">>
ResponseScores == {2000, Unit}
PassScore == 6 * (Unit \div 10)

Issued(s) == {s.challenges[i] : i \in 1..Len(s.challenges)}
Answered(s) == {s.scores[i].challenge_id : i \in 1..Len(s.scores)}

\* submitResponse(sessionId, challengeId, responseFrames): the session
\* afterwards and the session error it reports ("None": accepted).  A
\* terminal session rejects the response; so does a challenge that was not
\* issued, and one that was already answered.
SubmitResponse_AcceptsLate(s, challenge_id, score) ==
    IF s.state \in TerminalStates \ {"EXPIRED"}
    THEN [session |-> s, error |-> "session_closed"]
    ELSE IF challenge_id \notin Issued(s)
    THEN [session |-> s, error |-> "unknown_challenge"]
    ELSE IF challenge_id \in Answered(s)
    THEN [session |-> s, error |-> "challenges_exhausted"]
    ELSE [session |-> [s EXCEPT !.state = "IN_PROGRESS",
                                !.scores = Append(@, [challenge_id |-> challenge_id,
                                                      score |-> score])],
          error |-> None]

SubmitResponse(s, challenge_id, score) ==
    IF s.state = "EXPIRED"
    THEN [session |-> s, error |-> "session_expired"]
    ELSE IF s.state \in TerminalStates
    THEN [session |-> s, error |-> "session_closed"]
    ELSE IF challenge_id \notin Issued(s)
    THEN [session |-> s, error |-> "unknown_challenge"]
    ELSE IF challenge_id \in Answered(s)
    THEN [session |-> s, error |-> "challenges_exhausted"]
    ELSE [session |-> [s EXCEPT !.state = "IN_PROGRESS",
                                !.scores = Append(@, [challenge_id |-> challenge_id,
                                                      score |-> score])],
          error |-> None]

\* The mean of the collected response scores
MeanScore(scores) ==
    SumSeq([i \in 1..Len(scores) |-> scores[i].score]) \div Len(scores)

\* finalize(sessionId): COMPLETED with the liveness_score when every issued
\* challenge was answered and the responses meet the criteria, FAILED when
\* they do not; a terminal session is left as it is.
Finalize(s) ==
    IF s.state = "EXPIRED"
    THEN [session |-> s, error |-> "session_expired"]
    ELSE IF s.state \in TerminalStates
    THEN [session |-> s, error |-> "session_closed"]
    ELSE IF Answered(s) = Issued(s) /\ \A i \in 1..Len(s.scores) : s.scores[i].score >= PassScore
    THEN [session |-> [s EXCEPT !.state = "COMPLETED",
                                !.liveness_score = << MeanScore(s.scores) >>],
          error |-> None]
    ELSE [session |-> [s EXCEPT !.state = "FAILED"], error |-> None]

\* createSession(numChallenges, allowedTypes) -> ProbeSession (state = ISSUED)
CreateSession(n) ==
    /\ session.state = "CREATED"
    /\ session' = [session EXCEPT !.state = "ISSUED", !.challenges = SubSeq(ChallengeIds, 1, n)]
    /\ reply' = [op |-> "createSession", error |-> None]
    /\ UNCHANGED <<detectors, results_cache, last_scan, response, clock, returned, fx, det,
                   penta, threadVars, life, mt, probe, sdk>>

\* submitResponse on the session
SubmitResponseCall(challenge_id, score) ==
    /\ session.state # "CREATED"
    /\ LET out == SubmitResponse(session, challenge_id, score)
       IN  /\ session' = out.session
           /\ reply' = [op |-> "submitResponse", error |-> out.error]
    /\ UNCHANGED <<detectors, results_cache, last_scan, response, clock, returned, fx, det,
                   penta, threadVars, life, mt, probe, sdk>>

\* finalize on the session
FinalizeCall ==
    /\ session.state # "CREATED"
    /\ LET out == Finalize(session)
       IN  /\ session' = out.session
           /\ reply' = [op |-> "finalize", error |-> out.error]
    /\ UNCHANGED <<detectors, results_cache, last_scan, response, clock, returned, fx, det,
                   penta, threadVars, life, mt, probe, sdk>>

\* The wall-clock or per-challenge timeout of a session that is not yet
\* terminal runs out.
Expire ==
    /\ session.state \in {"ISSUED", "IN_PROGRESS"}
    /\ session' = [session EXCEPT !.state = "EXPIRED"]
    /\ UNCHANGED <<detectors, results_cache, last_scan, response, clock, returned, fx, det,
                   penta, threadVars, life, mt, probe, reply, sdk>>

CreateSessionStep == \E n \in 1..Len(ChallengeIds) : CreateSession(n)
SubmitResponseStep ==
    \E challenge_id \in {ChallengeIds[i] : i \in 1..Len(ChallengeIds)} \cup {"audio_unknown"},
       score \in ResponseScores :
        SubmitResponseCall(challenge_id, score)

NextSession == CreateSessionStep \/ SubmitResponseStep \/ FinalizeCall \/ Expire

SpecSession == Init /\ [][NextSession]_vars

(***************************************************************************)
(* sdk/python/scanner_sdk/client.py: ScannerClient.wait_for_result.  Time  *)
(* is counted in whole seconds read off time.time(); a request takes at    *)
(* least one of them.  What the server answers to each poll is a free      *)
(* choice.                                                                 *)
(***************************************************************************)
\* What a poll can meet: an HTTP status code, or no response at all.
StatusCodes == {200, 302, 401, 403, 404, 422, 429, 500, 503}

\* _handle_response(response), with 5xx mapped to ScannerNotFoundError
HandleResponse_ServerErrorRetried(status_code) ==
    CASE status_code = 200 -> [returns |-> TRUE, raises |-> "none"]
      [] status_code \in {401, 403} -> [returns |-> FALSE, raises |-> "ScannerAuthError"]
      [] status_code = 404 -> [returns |-> FALSE, raises |-> "ScannerNotFoundError"]
      [] status_code = 422 -> [returns |-> FALSE, raises |-> "ScannerValidationError"]
      [] status_code = 429 -> [returns |-> FALSE, raises |-> "ScannerRateLimitError"]
      [] status_code >= 500 -> [returns |-> FALSE, raises |-> "ScannerNotFoundError"]
      [] OTHER -> [returns |-> FALSE, raises |-> "ScannerAPIError"]

\* _handle_response(response): the JSON body for 200, an exception otherwise
HandleResponse(status_code) ==
    CASE status_code = 200 -> [returns |-> TRUE, raises |-> "none"]
      [] status_code \in {401, 403} -> [returns |-> FALSE, raises |-> "ScannerAuthError"]
      [] status_code = 404 -> [returns |-> FALSE, raises |-> "ScannerNotFoundError"]
      [] status_code = 422 -> [returns |-> FALSE, raises |-> "ScannerValidationError"]
      [] status_code = 429 -> [returns |-> FALSE, raises |-> "ScannerRateLimitError"]
      [] status_code >= 500 -> [returns |-> FALSE, raises |-> "ScannerAPIError"]
      [] OTHER -> [returns |-> FALSE, raises |-> "ScannerAPIError"]

InitWaitCall ==
    /\ detectors = << >>
    /\ results_cache = << >>
    /\ last_scan = << >>
    /\ response = [status |-> 0, api_key |-> None, scan_id |-> None, body |-> << >>]
    /\ clock = 0
    /\ returned = {}
    /\ instance = NoObject
    /\ lock = NoThread
    /\ heap = << >>
    /\ pc = [t \in Threads |-> "idle"]
    /\ local = [t \in Threads |-> IdleLocal]
    /\ calls = 0
    /\ life = IdleLife
    /\ session = NoSession
    /\ reply = [op |-> "none"]
    /\ mt = [op |-> "none"]
    /\ fx = [op |-> "none"]
    /\ det = [op |-> "none"]
    /\ penta = [op |-> "none"]
    /\ probe = [op |-> "none"]
    /\ \E poll_interval \in (-1)..MaxPollInterval, max_wait \in 0..MaxWait :
           sdk = [op |-> "wait_call", poll_interval |-> poll_interval, max_wait |-> max_wait,
                  start |-> 0, now |-> 0, polls |-> << >>, outcome |-> "none", result |-> 0]

\* wait_for_result line 209: start = time.time()
WaitBegin ==
    /\ sdk.op = "wait_call"
    /\ sdk' = [sdk EXCEPT !.op = "wait_test", !.start = sdk.now]
    /\ UNCHANGED <<detectors, results_cache, last_scan, response, clock, returned, fx, det,
                   penta, threadVars, life, mt, probe, sessionVars>>

\* wait_for_result lines 211 and 219: the loop condition; once it is false
\* ScannerTimeoutError is raised
WaitTest ==
    /\ sdk.op = "wait_test"
    /\ sdk' = IF sdk.now - sdk.start < sdk.max_wait
              THEN [sdk EXCEPT !.op = "wait_poll"]
              ELSE [sdk EXCEPT !.op = "ended", !.outcome = "ScannerTimeoutError"]
    /\ UNCHANGED <<detectors, results_cache, last_scan, response, clock, returned, fx, det,
                   penta, threadVars, life, mt, probe, sessionVars>>

\* wait_for_result lines 212-216 with get_result lines 172-178: one request
\* that the server answers with status_code after elapsed seconds.  The
\* result of a 200 is returned; ScannerNotFoundError is caught; any other
\* exception leaves wait_for_result.
WaitPoll(status_code, elapsed) ==
    /\ sdk.op = "wait_poll"
    /\ LET answer == HandleResponse(status_code)
           polled == [sdk EXCEPT !.now = @ + elapsed,
                                 !.polls = Append(@, [status_code |-> status_code,
                                                      raises |-> answer.raises])]
       IN  sdk' = IF answer.returns
                  THEN [polled EXCEPT !.op = "ended", !.outcome = "returned",
                                      !.result = Len(polled.polls)]
                  ELSE IF answer.raises = "ScannerNotFoundError"
                  THEN [polled EXCEPT !.op = "wait_sleep"]
                  ELSE [polled EXCEPT !.op = "ended", !.outcome = answer.raises]
    /\ UNCHANGED <<detectors, results_cache, last_scan, response, clock, returned, fx, det,
                   penta, threadVars, life, mt, probe, sessionVars>>

\* get_result line 172: the request gets no response; httpx raises, and the
\* exception leaves wait_for_result
WaitPollFails(error, elapsed) ==
    /\ sdk.op = "wait_poll"
    /\ sdk' = [sdk EXCEPT !.op = "ended", !.outcome = error, !.now = @ + elapsed,
                          !.polls = Append(@, [status_code |-> 0, raises |-> error])]
    /\ UNCHANGED <<detectors, results_cache, last_scan, response, clock, returned, fx, det,
                   penta, threadVars, life, mt, probe, sessionVars>>

\* wait_for_result line 217: time.sleep(poll_interval); a negative length
\* raises ValueError
WaitSleep ==
    /\ sdk.op = "wait_sleep"
    /\ sdk' = IF sdk.poll_interval < 0
              THEN [sdk EXCEPT !.op = "ended", !.outcome = "ValueError"]
              ELSE [sdk EXCEPT !.op = "wait_test", !.now = @ + sdk.poll_interval]
    /\ UNCHANGED <<detectors, results_cache, last_scan, response, clock, returned, fx, det,
                   penta, threadVars, life, mt, probe, sessionVars>>

WaitPollStep == \E status_code \in StatusCodes, elapsed \in 1..MaxRequestTime :
                    WaitPoll(status_code, elapsed)
WaitPollFailsStep ==
    \E error \in {"httpx.TimeoutException", "httpx.ConnectError"}, elapsed \in 1..MaxRequestTime :
        WaitPollFails(error, elapsed)

NextWait == WaitBegin \/ WaitTest \/ WaitPollStep \/ WaitPollFailsStep \/ WaitSleep

SpecWait == InitWaitCall /\ [][NextWait]_vars

(***************************************************************************)
(* Claims about the orchestrator, the result store and the override policy *)
(***************************************************************************)
\* The PentaShield override for the media of a scan call.
OverrideFor(call) ==
    CheckOverrides(RunHydra(call.content), RunSentinel(call.content),
                   Unit - call.result.trust_score)

\* C1: scanning byte-identical content twice yields the same scan_id and an
\* identical ScanResult: whenever the store already holds a result for the
\* content fingerprint of the scan just completed, the scan returned exactly
\* that stored result, whatever the filenames.
C1_SameContentSameResult ==
    \A i \in DOMAIN last_scan :
        \A id \in DOMAIN results_cache :
            results_cache[id].content_hash = Sha256(last_scan[i].content)
                => results_cache[id] = ModelDump(last_scan[i].result)

C3_OverrideReachesScanResult ==
    \A i \in DOMAIN last_scan :
        LET ov == OverrideFor(last_scan[i])
        IN  ov.verdict # None =>
                /\ last_scan[i].result.verdict = ov.verdict
                /\ last_scan[i].result.threat_level = THREAT_MAP[ov.verdict]

\* C4: in every result of TrustScoreEngine.compute and every ScanResult of
\* scan, threat_level is the image of verdict under the fixed map.
C4_ThreatLevelFollowsVerdict ==
    /\ \A i \in DOMAIN last_scan :
          last_scan[i].result.threat_level = THREAT_MAP[last_scan[i].result.verdict]
    /\ fx.op = "compute" => fx.out.threat_level = THREAT_MAP[fx.out.verdict]

\* C5: with three enabled detectors of which one raises, the ScanResult
\* holds three detector results, two PASS and one ERROR, and a verdict.
C5_PartialFailureTolerated ==
    \A i \in DOMAIN last_scan :
        LET call == last_scan[i]
            dr == call.result.detector_results
        IN  (Len(call.enabled) = 3 /\ \E k \in 1..3 : call.enabled[k] = "failing_detector")
                => /\ DOMAIN dr = {call.enabled[k] : k \in 1..3}
                   /\ Cardinality({n \in DOMAIN dr : dr[n].status = "PASS"}) = 2
                   /\ Cardinality({n \in DOMAIN dr : dr[n].status = "ERROR"}) = 1
                   /\ call.result.verdict \in Verdict

\* C9: with zero detectors enabled, scan returns verdict UNCERTAIN,
\* confidence 0 and an empty detector_results map.
C9_NoDetectorsUncertain ==
    \A i \in DOMAIN last_scan :
        last_scan[i].enabled = << >> =>
            /\ last_scan[i].result.verdict = "UNCERTAIN"
            /\ last_scan[i].result.confidence = 0
            /\ last_scan[i].result.detector_results = << >>

\* C9 witness: a scan completed while no detector was registered.
C9_Witness ==
    /\ last_scan # << >>
    /\ last_scan[1].enabled = << >>
    /\ last_scan[1].result.scan_id \in DOMAIN results_cache

\* C10: a lookup answers 200 with the stored result of that scan_id exactly
\* for the ids completed scans returned and 404 for every other id, and it
\* never changes the store.
C10_LookupMatchesStore ==
    [][response' # response =>
        /\ results_cache' = results_cache
        /\ returned' = returned
        /\ response'.status \in {200, 404, 401, 403}
        /\ response'.api_key = SettingsApiKey => response'.status \in {200, 404}
        /\ response'.status = 404 => response'.scan_id \notin returned
        /\ response'.status = 200 =>
              /\ response'.scan_id \in returned
              /\ response'.body = << ParseScanResult(results_cache[response'.scan_id]) >>
              /\ response'.body[1].scan_id = response'.scan_id
              /\ \A i \in DOMAIN last_scan :
                    last_scan[i].result.scan_id = response'.scan_id
                        => response'.body[1] = last_scan[i].result
      ]_vars

\* C10 witness: after two scans with different ids, a lookup of the latest
\* one answered 200 with the result that scan returned.
C10_Witness ==
    /\ Cardinality(returned) = 2
    /\ response.status = 200
    /\ last_scan # << >>
    /\ response.body = << last_scan[1].result >>

\* C14: in every PentaShieldResult override_reason is set exactly when
\* override_verdict is set; a set verdict is a Verdict and comes with the
\* text of the rule that fired.
C14_ReasonIffVerdict ==
    penta.op = "analyze"
        => LET r == penta.result
           IN  /\ (r.override_verdict = None) <=> (r.override_reason = None)
               /\ r.override_verdict # None
                     => /\ r.override_verdict \in Verdict
                        /\ r.override_reason \in {"adversarial", "novel_type", "physics", "dissent"}

\* An analysis whose evidence triggers an override: both fields are set.
C14_Witness ==
    /\ penta.op = "analyze"
    /\ penta.result.hydra.adversarial_detected
    /\ penta.result.override_verdict = "UNCERTAIN"
    /\ penta.result.override_reason # None

(***************************************************************************)
(* Claims about the fusion layer                                           *)
(***************************************************************************)
VerdictRank ==
    [v \in Verdict |->
        CASE v = "FAKE" -> 0 [] v = "LIKELY_FAKE" -> 1 [] v = "UNCERTAIN" -> 2
          [] v = "LIKELY_AUTHENTIC" -> 3 [] v = "AUTHENTIC" -> 4]

C8_OutputsClamped ==
    /\ fx.op = "fuse" =>
          /\ fx.out.fused_score \in 0..Unit
          /\ fx.out.confidence \in 0..Unit
          /\ fx.out.method = "cross_modal_attention" =>
                \A m \in DOMAIN fx.out.modality_scores : fx.out.modality_scores[m] \in 0..Unit
    /\ fx.op = "compute" =>
          /\ fx.out.trust_score \in 0..Fine
          /\ fx.out.confidence \in 0..Fine

\* The fuse call returned with at least one modality present, every
\* modality score in [0,1].
FusedInRange ==
    /\ fx.op = "fuse"
    /\ fx.out.method = "cross_modal_attention"
    /\ \A m \in DOMAIN fx.out.modality_scores : fx.out.modality_scores[m] \in 0..Unit

\* The sum of the attention weights that fuse returned.
WeightSum ==
    LET mods == PresentModalities(fx.visual_results, fx.audio_results, fx.text_results)
    IN  SumSeq([i \in 1..Len(mods) |-> fx.out.attention_weights[mods[i]]])

\* C21 as stated: for modality scores in [0,1] the attention weights that
\* fuse returns are strictly positive and sum to exactly 1.
C21_WeightsSumToOne ==
    FusedInRange =>
        /\ \A m \in DOMAIN fx.out.attention_weights : fx.out.attention_weights[m] > 0
        /\ WeightSum = Unit

\* C21 amended: for modality scores in [0,1] the returned weights are
\* strictly positive and sum to 1 up to the rounding of each weight to four
\* decimals, that is within half a unit of the fourth decimal per present
\* modality; with one or two modalities present the sum is exactly 1.
C21_WeightsSumToOneRounded ==
    FusedInRange =>
        LET n == Cardinality(DOMAIN fx.out.attention_weights)
        IN  /\ \A m \in DOMAIN fx.out.attention_weights : fx.out.attention_weights[m] > 0
            /\ 2 * Abs(WeightSum - Unit) <= n
            /\ n <= 2 => WeightSum = Unit

\* C21 witness: three modalities with scores in [0,1] were fused, their
\* weights differ and the rounded weights do not add up to 1.
C21_Witness ==
    /\ FusedInRange
    /\ Cardinality(DOMAIN fx.out.attention_weights) = 3
    /\ fx.out.attention_weights["visual"] < fx.out.attention_weights["text"]
    /\ WeightSum = Unit - 1

\* n * n times the variance of the modality scores that fuse returned
\* (n the number of present modalities).
ScaledVariance ==
    LET mods == PresentModalities(fx.visual_results, fx.audio_results, fx.text_results)
        n == Len(mods)
        scores == [i \in 1..n |-> fx.out.modality_scores[mods[i]]]
        sum == SumSeq(scores)
    IN  n * SumSeq([i \in 1..n |-> scores[i] * scores[i]]) - sum * sum

\* C22: fuse returns confidence = min(0.95, 1.2 * agreement), never above
\* 0.95; with one modality present agreement is 0.5 and the confidence
\* 0.6; with two or more (scores in [0,1]) agreement is
\* max(0, 1 - 3 * stddev of the modality scores), up to the rounding of the
\* fourth decimal; with none present the result is fused_score 0.5,
\* confidence 0.
C22_ConfidenceFromAgreement ==
    fx.op = "fuse" =>
        LET mods == PresentModalities(fx.visual_results, fx.audio_results, fx.text_results)
            n == Len(mods)
        IN  /\ fx.out.confidence <= (95 * Unit) \div 100
            /\ n = 0 => /\ fx.out.method = "no_modalities"
                        /\ fx.out.fused_score = Unit \div 2
                        /\ fx.out.confidence = 0
            /\ n >= 1 => /\ fx.out.method = "cross_modal_attention"
                         /\ fx.out.confidence
                               = Min((95 * Unit) \div 100, RoundDiv(12 * fx.out.agreement, 10))
            /\ n = 1 => /\ fx.out.agreement = Unit \div 2
                        /\ fx.out.confidence = (6 * Unit) \div 10
            /\ (n >= 2 /\ FusedInRange) =>
                  LET d == Unit - fx.out.agreement
                  IN  IF fx.out.agreement > 0
                      THEN /\ d % 3 = 0
                           /\ (n * (d \div 3) - n) * (n * (d \div 3) - n) <= ScaledVariance
                              \/ d \div 3 <= 1
                           /\ ScaledVariance <= (n * (d \div 3) + n) * (n * (d \div 3) + n)
                      ELSE 9 * ScaledVariance >= (n * Unit - 3 * n) * (n * Unit - 3 * n)

\* C22 witness: two modalities whose scores differ were fused and the
\* confidence is 1.2 * agreement, below the cap 0.95.
C22_Witness ==
    /\ FusedInRange
    /\ Cardinality(DOMAIN fx.out.modality_scores) = 2
    /\ fx.out.agreement \in 1..(Unit \div 2)
    /\ fx.out.confidence = RoundDiv(12 * fx.out.agreement, 10)

\* The results handed to fuse for modality m.
FuseInput(m) ==
    CASE m = "visual" -> fx.visual_results
      [] m = "audio" -> fx.audio_results
      [] m = "text" -> fx.text_results

\* Modality m is present and each of its detectors reports a score in
\* [0,1] with confidence 0.
ZeroConfidenceModality(m) ==
    /\ FuseInput(m) # << >>
    /\ \A i \in 1..Len(FuseInput(m)) :
          /\ FuseInput(m)[i] \in InRangeResults
          /\ FuseInput(m)[i].confidence = 0

\* The outcome of the same call with modality m reported by one detector of
\* score 0.5 and confidence 0.5.
FuseWithNeutral(m) ==
    LET neutral == <<[score |-> Unit \div 2, confidence |-> Unit \div 2]>>
    IN  Fuse(IF m = "visual" THEN neutral ELSE fx.visual_results,
             IF m = "audio" THEN neutral ELSE fx.audio_results,
             IF m = "text" THEN neutral ELSE fx.text_results)

\* C27: a present modality whose detectors all report confidence 0 is
\* treated as neutral by fuse: its reported modality score is 0.5, and the
\* agreement and the fused confidence are not lower than with that modality
\* scored 0.5.
C27_ZeroConfidenceModalityNeutral ==
    fx.op = "fuse" =>
        \A m \in {"visual", "audio", "text"} :
            (/\ ZeroConfidenceModality(m)
             /\ \A o \in {"visual", "audio", "text"} :
                   \A i \in 1..Len(FuseInput(o)) : FuseInput(o)[i] \in InRangeResults)
                => /\ fx.out.modality_scores[m] = Unit \div 2
                   /\ fx.out.agreement >= FuseWithNeutral(m).agreement
                   /\ fx.out.confidence >= FuseWithNeutral(m).confidence

(***************************************************************************)
(* Claims about the detector-call boundary                                 *)
(***************************************************************************)
\* The detection step of the call raised: the detector's own step raises,
\* or the inference of the loaded network meets a frame it raises on.
DetectionStepRaised(call) ==
    \/ call.detector = "failing_detector"
    \/ /\ call.detector = "efficientnet_b0"
       /\ call.model_loaded
       /\ LET frames == IF call.inp.frames # << >> THEN call.inp.frames ELSE call.inp.image
          IN  \E i \in 1..Len(frames) : frames[i] = RaisingFrame

\* C6: a detector whose detection step raises returns from detect a result
\* with status ERROR, score 0.5, confidence 0 and the error text under
\* details["error"]; detect never raises.
C6_DetectDowngradesErrors ==
    det.op = "detect" =>
        /\ ~det.outcome.raised
        /\ DetectionStepRaised(det) =>
              /\ det.outcome.result.status = "ERROR"
              /\ det.outcome.result.score = 5000
              /\ det.outcome.result.confidence = 0
              /\ "error" \in DOMAIN det.outcome.result.details
              /\ det.outcome.result.details["error"] \in {"Intentional failure", "bad frame"}

\* C6 witness: the failing detector was called and detect returned ERROR.
C6_Witness ==
    /\ det.op = "detect"
    /\ det.detector = "failing_detector"
    /\ det.outcome.result.status = "ERROR"

(***************************************************************************)
(* Claims about DetectorRegistry under threads                             *)
(***************************************************************************)
\* C11: every call DetectorRegistry() returns the current registry object:
\* never None, and an object whose detector map has been initialised exactly
\* once, also when constructions and reset() interleave.
C11_ConstructionReturnsInstance ==
    \A t \in Threads :
        (local[t].op = "new" /\ local[t].outcome = "ok")
            => /\ local[t].ret # NoObject
               /\ local[t].ret_inits = 1

\* C12: a get_enabled call that interleaves with register, unregister (or
\* reset) calls of another thread completes without error, and the list it
\* returns holds registered detectors only.  (A reader that was handed a
\* registry without its map fails with AttributeError before it iterates:
\* that is the construction race of C11 and is left out here.)
C12_ReadersCompleteWithoutError ==
    \A t \in Threads :
        (local[t].op = "get_enabled" /\ local[t].outcome # "AttributeError")
            => /\ local[t].outcome # "RuntimeError"
               /\ \A i \in 1..Len(local[t].acc) : local[t].acc[i] \in ThreadDetectors

(***************************************************************************)
(* Claims about the application lifespan                                   *)
(***************************************************************************)
\* C13: when shutdown_all has ended, the shutdown hook of every registered
\* detector has been invoked, also when one of the hooks raised.
C13_ShutdownReachesEveryDetector ==
    life.phase = "stopped"
        => \A i \in 1..Len(detectors) :
               \E k \in 1..Len(life.invoked) : life.invoked[k] = detectors[i]

\* C25: startup registers every detector of the list before any model load
\* begins; a load that fails neither unregisters its detector nor stops the
\* loads still running nor keeps startup from completing: while the loads
\* run and when the application serves, the registry holds every detector of
\* the list.
C25_LoadFailureKeepsRegistration ==
    /\ (life.loaded \cup life.load_failed # {}) => life.phase # "created"
    /\ life.phase \in {"loading", "serving"} =>
          \A name \in DetectorNames : \E i \in 1..Len(detectors) : detectors[i] = name
    /\ life.phase = "loading" =>
          /\ \A name \in DetectorNames \ (life.loaded \cup life.load_failed) :
                ENABLED EnsureLoaded(name, TRUE)
          /\ life.loaded \cup life.load_failed = DetectorNames => ENABLED LifespanServe
    /\ life.phase = "serving" => life.loaded \cup life.load_failed = DetectorNames

\* C25 witness: every load failed and the application serves with all the
\* detectors registered.
C25_Witness ==
    /\ life.phase = "serving"
    /\ life.load_failed = DetectorNames
    /\ life.loaded = {}
    /\ detectors = DetectorList

\* C26: shutdown_all invokes the shutdown hook of every detector that was
\* registered when it began and ends without an error, also when another
\* task registers or unregisters a detector while it is suspended at an
\* await (no hook raising, which is C13's case).
C26_ShutdownUnaffectedByRegistration ==
    (life.phase = "stopped" /\ life.outcome # "hook_raised")
        => /\ life.outcome = "ok"
           /\ \A i \in 1..Len(life.at_begin) :
                  \E k \in 1..Len(life.invoked) : life.invoked[k] = life.at_begin[i]

(***************************************************************************)
(* Claims about _detect_media_type                                         *)
(***************************************************************************)
\* C15: _detect_media_type always returns a media type, resolved in the order
\* hint, MIME class of the filename, extension table, IMAGE: a hint that
\* names a media type wins over any filename; an unrecognised or empty hint
\* falls through to the filename's MIME class; a filename without one of the
\* four MIME classes is looked up by its extension; anything else is IMAGE.
C15_MediaTypeResolutionOrder ==
    mt.op = "detect"
        => LET named == {n \in MediaType : EnumValue[n] = mt.hint}
               mime == GuessMime(mt.filename)
               byMime == IF mime = None THEN {}
                         ELSE {n \in {"VIDEO", "IMAGE", "AUDIO", "TEXT"} :
                                   <<MimePrefix(mime), n>> \in
                                       {<<"video/", "VIDEO">>, <<"image/", "IMAGE">>,
                                        <<"audio/", "AUDIO">>, <<"text/", "TEXT">>}}
               byExt == EXT_MAP(Ext(mt.filename))
           IN  /\ mt.result \in MediaType
               /\ IF named # {} THEN mt.result \in named
                  ELSE IF byMime # {} THEN mt.result \in byMime
                  ELSE IF byExt # None THEN mt.result = byExt
                  ELSE mt.result = "IMAGE"

\* The hint names VIDEO while the filename is a JPEG: the hint decides.
C15_Witness ==
    /\ mt.op = "detect"
    /\ mt.filename = "test.jpg"
    /\ mt.hint = "video"
    /\ mt.result = "VIDEO"

(***************************************************************************)
(* Claims about generate_session_challenges                                *)
(***************************************************************************)
Elements(list) == {list[i] : i \in 1..Len(list)}
CountOfType(challenges, challenge_type) ==
    Cardinality({i \in 1..Len(challenges) : challenges[i].challenge_type = challenge_type})

\* Within every run of draws between two refills no type is drawn twice: the
\* draws, cut into blocks of as many draws as there are allowed types, hold
\* pairwise different types inside each block.
NoRedrawBeforeRefill(drawn, challenge_types) ==
    LET size == Cardinality(Elements(challenge_types))
    IN  \A i, j \in 1..Len(drawn) :
            (i < j /\ (i - 1) \div size = (j - 1) \div size) => drawn[i] # drawn[j]

\* C16: generate_session_challenges(n, allowedTypes) ends by returning a list
\* of exactly n challenges, each of a type of allowedTypes, for every n >= 0
\* and every list of allowed types.
C16_ExactlyNChallengesOfAllowedTypes ==
    /\ probe.op # "generate_raised"
    /\ probe.op = "generated"
         => /\ Len(probe.challenges) = probe.num_challenges
            /\ \A i \in 1..Len(probe.challenges) :
                   probe.challenges[i].challenge_type \in Elements(probe.challenge_types)

\* C17 as stated, for every list of allowed types: no type is drawn again
\* before every allowed type has been drawn since the last refill, and the
\* returned list holds numbers of challenges per allowed type that differ by
\* at most one.
C17_BalancedForEveryTypeList ==
    probe.op = "generated"
        => /\ NoRedrawBeforeRefill(probe.drawn, probe.challenge_types)
           /\ \A a, b \in Elements(probe.challenge_types) :
                  CountOfType(probe.challenges, a) - CountOfType(probe.challenges, b) <= 1

\* C17, amended: the same, for a list of allowed types that names each of
\* light / motion / audio at most once and nothing else.
C17_BalancedForDistinctKnownTypes ==
    (/\ probe.op = "generated"
     /\ Elements(probe.challenge_types) \subseteq KnownTypes
     /\ Cardinality(Elements(probe.challenge_types)) = Len(probe.challenge_types))
        => /\ NoRedrawBeforeRefill(probe.drawn, probe.challenge_types)
           /\ \A a, b \in Elements(probe.challenge_types) :
                  CountOfType(probe.challenges, a) - CountOfType(probe.challenges, b) <= 1

\* Three challenges over two allowed types: the pool was refilled once, one
\* type occurs twice and the other once.
C17_Witness ==
    /\ probe.op = "generated"
    /\ probe.challenge_types = <<"light", "motion">>
    /\ probe.num_challenges = 3
    /\ CountOfType(probe.challenges, "light") = 2
    /\ CountOfType(probe.challenges, "motion") = 1

(***************************************************************************)
(* Claims about the challenge generators                                   *)
(***************************************************************************)
\* C24: every generated light challenge has 2 to 4 steps, each step duration
\* in 400..800 ms and expected_duration_ms equal to the sum of its step
\* durations; every generated motion challenge has expected_angle within 5
\* degrees of the base angle of its direction, tolerance 10 and
\* expected_duration_ms in 2000..3500.
C24_ParametersInRange ==
    /\ probe.op = "light" =>
          LET challenge == probe.challenge[1]
              sequence == challenge.parameters.sequence
          IN  /\ Len(sequence) \in 2..4
              /\ \A i \in 1..Len(sequence) : sequence[i].duration_ms \in 400..800
              /\ \A i \in 1..Len(sequence) : sequence[i].color \in LIGHT_COLORS
              /\ challenge.expected_duration_ms
                    = SumSeq([i \in 1..Len(sequence) |-> sequence[i].duration_ms])
    /\ probe.op = "motion" =>
          LET challenge == probe.challenge[1]
              base == MOTION_DIRECTIONS[challenge.parameters.direction]
          IN  /\ Abs(challenge.parameters.expected_angle - base) <= 5
              /\ challenge.parameters.tolerance = 10
              /\ challenge.expected_duration_ms \in 2000..3500

\* C24 witness: a light challenge of four steps of 800 ms each, 3200 ms in
\* all, was generated.
C24_Witness ==
    /\ probe.op = "light"
    /\ Len(probe.challenge[1].parameters.sequence) = 4
    /\ \A i \in 1..4 : probe.challenge[1].parameters.sequence[i].duration_ms = 800
    /\ probe.challenge[1].expected_duration_ms = 3200

\* C29: the four-digit number of an audio challenge is drawn anew whenever an
\* audio challenge is generated: no two audio challenges issued in the
\* process got their number from the same call of random.randint, so the
\* number of one does not give away the number of the next.
C29_NumberDrawnPerChallenge ==
    \A i, j \in 1..Len(probe.issued) :
        (i # j /\ probe.issued[i].is_number /\ probe.issued[j].is_number)
            => probe.issued[i].draw # probe.issued[j].draw

(***************************************************************************)
(* Claims about LightChallenge.evaluate and MotionChallenge.evaluate       *)
(***************************************************************************)
\* C19: evaluate called with None, an empty list or a single frame returns
\* overall_score 1.0 and passed = true with all three sub-scores at 1.0, for
\* the light and for the motion challenge.
C19_TooFewFramesPassByDefault ==
    (/\ probe.op = "evaluate"
     /\ (probe.frames.is_none \/ Len(probe.frames.list) <= 1))
        => /\ probe.result.overall_score = Unit
           /\ probe.result.passed
           /\ probe.challenge = "light"
                => /\ probe.result.ambient_response_score = Unit
                   /\ probe.result.shadow_coherence = Unit
                   /\ probe.result.specular_response = Unit
           /\ probe.challenge = "motion"
                => /\ probe.result.flow_consistency = Unit
                   /\ probe.result.face_bg_ratio = Unit
                   /\ probe.result.temporal_smoothness = Unit

\* A light challenge evaluated on one frame whose measurements would all
\* have been 0: it passes with the default scores.
C19_Witness ==
    /\ probe.op = "evaluate"
    /\ probe.challenge = "light"
    /\ ~probe.frames.is_none
    /\ Len(probe.frames.list) = 1
    /\ probe.measured = <<0, 0, 0>>
    /\ probe.result.overall_score = Unit
    /\ probe.result.passed

\* An evaluation of a capture of at least two frames returned.
EvaluatedCapture ==
    /\ probe.op = "evaluate"
    /\ ~probe.frames.is_none
    /\ Len(probe.frames.list) >= 2

\* 0.4 * first + 0.3 * second + 0.3 * third of the sub-scores in the result,
\* in units of 1/(10 * Unit).
WeightedReported ==
    IF probe.challenge = "light"
    THEN 4 * probe.result.ambient_response_score + 3 * probe.result.shadow_coherence
            + 3 * probe.result.specular_response
    ELSE 4 * probe.result.flow_consistency + 3 * probe.result.face_bg_ratio
            + 3 * probe.result.temporal_smoothness

\* C23 as stated: for a capture of at least 2 frames overall_score equals
\* 0.4 * first sub-score + 0.3 * second + 0.3 * third, and passed is true
\* exactly when the reported overall_score is >= 0.6.
C23_OverallAndPassedFromReport ==
    EvaluatedCapture =>
        /\ 10 * probe.result.overall_score = WeightedReported
        /\ probe.result.passed <=> probe.result.overall_score >= (6 * Unit) \div 10

\* C23 amended: overall_score is the weighted sum of the unrounded
\* sub-scores rounded to four decimals, so it lies within 0.0001 of the
\* weighted sum of the reported sub-scores; passed is decided on the
\* unrounded sum: passed implies a reported overall_score >= 0.6, and a
\* reported overall_score above 0.6 implies passed.
C23_OverallRoundedPassedUnrounded ==
    EvaluatedCapture =>
        /\ Abs(10 * probe.result.overall_score - WeightedReported) <= 10
        /\ probe.result.passed => probe.result.overall_score >= (6 * Unit) \div 10
        /\ probe.result.overall_score > (6 * Unit) \div 10 => probe.result.passed

\* C23 witness: a light capture of four frames whose weighted sum lies just
\* below 0.6 is reported with overall_score 0.6 and not passed.
C23_Witness ==
    /\ EvaluatedCapture
    /\ probe.challenge = "light"
    /\ Len(probe.frames.list) = 4
    /\ probe.result.overall_score = (6 * Unit) \div 10
    /\ ~probe.result.passed

\* C28: LightChallenge.evaluate returns passed = true for every capture of
\* 2 or 3 frames whatever was measured on them: the shadow and specular
\* sub-scores are 1.0, so overall = 0.4 * ambient + 0.6 >= 0.6; a light
\* capture that is not passed has 4 or more frames.
C28_LightPassesBelowFourFrames ==
    (probe.op = "evaluate" /\ probe.challenge = "light") =>
        /\ (~probe.frames.is_none /\ Len(probe.frames.list) \in {2, 3}) =>
              /\ probe.result.passed
              /\ probe.result.shadow_coherence = Unit
              /\ probe.result.specular_response = Unit
              /\ probe.result.overall_score
                    = RoundToUnit(4 * probe.measured[1] + 6 * Fine, 10 * Fine)
              /\ probe.result.overall_score >= (6 * Unit) \div 10
        /\ ~probe.result.passed => Len(probe.frames.list) >= LIGHT_MIN_FRAMES

\* C28 witness: three frames on which every measurement is 0 passed the light
\* challenge with overall_score 0.6.
C28_Witness ==
    /\ probe.op = "evaluate"
    /\ probe.challenge = "light"
    /\ Len(probe.frames.list) = 3
    /\ probe.measured = <<0, 0, 0>>
    /\ probe.result.ambient_response_score = 0
    /\ probe.result.overall_score = (6 * Unit) \div 10
    /\ probe.result.passed

(***************************************************************************)
(* Claims about the probe session                                          *)
(***************************************************************************)
\* C20: terminal session states are absorbing: once the session is COMPLETED,
\* EXPIRED or FAILED no operation changes its state, its collected response
\* scores or its liveness_score, and a submitResponse on an expired session
\* is answered with the session-expired error.
C20_TerminalStatesAbsorbing ==
    [][session.state \in TerminalStates
         => /\ session'.state = session.state
            /\ session'.scores = session.scores
            /\ session'.liveness_score = session.liveness_score
            /\ (session.state = "EXPIRED" /\ reply' # reply /\ reply'.op = "submitResponse")
                 => reply'.error = "session_expired"]_vars

\* A response that arrived after expiry, with one response already collected:
\* it was rejected and the session still holds the one score.
C20_Witness ==
    /\ session.state = "EXPIRED"
    /\ Len(session.scores) = 1
    /\ reply.op = "submitResponse"
    /\ reply.error = "session_expired"

(***************************************************************************)
(* Claims about ScannerClient.wait_for_result                              *)
(***************************************************************************)
\* Every poll before the latest one was answered not-found (404).
EarlierPollsNotFound ==
    \A i \in 1..(Len(sdk.polls) - 1) : sdk.polls[i].status_code = 404

\* The ways wait_for_result ends according to the claim: with the result of
\* the first successful poll, with ScannerTimeoutError once max_wait has
\* elapsed and every poll was answered not-found, or with the error of the
\* latest poll when that is neither a success nor not-found.
EndsAsClaimed ==
    LET n == Len(sdk.polls)
    IN  \/ /\ sdk.outcome = "returned"
           /\ n >= 1
           /\ sdk.polls[n].status_code = 200
           /\ sdk.result = n
        \/ /\ sdk.outcome = "ScannerTimeoutError"
           /\ sdk.now - sdk.start >= sdk.max_wait
           /\ \A i \in 1..n : sdk.polls[i].status_code = 404
        \/ /\ n >= 1
           /\ sdk.outcome = sdk.polls[n].raises
           /\ sdk.polls[n].status_code \notin {200, 404}
           /\ sdk.outcome \notin {"none", "returned", "ScannerNotFoundError"}

\* C30 as stated: for every poll_interval and max_wait, wait_for_result
\* polls again only after a not-found answer and ends in one of the claimed
\* ways.
C30_WaitEndsAsClaimed ==
    /\ EarlierPollsNotFound
    /\ sdk.op = "ended" => EndsAsClaimed

\* C30 amended: for poll_interval >= 0 wait_for_result polls again only
\* after a not-found answer and ends in one of the claimed ways; every poll
\* starts before max_wait has elapsed, so with requests of at least a second
\* there are at most max_wait polls.
C30_WaitEndsAsClaimedForValidInterval ==
    /\ EarlierPollsNotFound
    /\ Len(sdk.polls) <= sdk.max_wait
    /\ (sdk.op = "ended" /\ sdk.poll_interval >= 0) => EndsAsClaimed
    /\ (sdk.op = "ended" /\ sdk.outcome = "ValueError") => sdk.poll_interval < 0

\* C30 witness: two polls were answered not-found, max_wait elapsed and the
\* wait ended with ScannerTimeoutError.
C30_Witness ==
    /\ sdk.op = "ended"
    /\ sdk.poll_interval >= 0
    /\ sdk.outcome = "ScannerTimeoutError"
    /\ Len(sdk.polls) = 2
    /\ sdk.now - sdk.start >= sdk.max_wait

====
